---- MODULE Spec2Model ----
(***************************************************************************)
(* Traceable execution platform: tickets, runs, artifacts, the run         *)
(* executor and the append-only audit log, modelled from backend/app.      *)
(*                                                                         *)
(* The state is what is durable: the committed rows, the stored files and  *)
(* the audit log.  An API handler is one step.  The background task        *)
(* RunExecutor.execute_run is a process per run; each of its steps ends at *)
(* a db.commit() or where it waits for an artifact's bytes, so every       *)
(* committed state of a run is a state of the model.                       *)
(***************************************************************************)
EXTENDS Integers, Sequences, FiniteSets, TLC

\* ----------------------------------------------------------------- bounds
MaxTickets == 1
MaxRuns == 2
MaxArtifacts == 2
MaxEdits == 1
MaxCalls == 4
MaxClock == 2
MaxLogCalls == 3
MaxStream == 3
ChunkSize == 2
\* settings.max_artifact_size_mb * 1024 * 1024, scaled down.
max_size_bytes == 1

\* ------------------------------------------------------- a call's outcome
\* OK: the handler returned; otherwise the status of the HTTPException raised.
OK == "ok"
HTTP_400_BAD_REQUEST == "400 Bad Request"
HTTP_403_FORBIDDEN == "403 Forbidden"
HTTP_404_NOT_FOUND == "404 Not Found"
HTTP_413_REQUEST_ENTITY_TOO_LARGE == "413 Request Entity Too Large"

\* ------------------------------------------------------------ value sets
Users == {"admin", "alice"}
Admins == {"admin"}
is_admin(u) == u \in Admins

\* Optional values: None is the empty tuple, Some(x) the one-element tuple.
None == <<>>
Some(x) == <<x>>

NoUser == "none"

TicketStatus == {"draft", "submitted", "approved", "running", "done", "failed", "closed"}
RunType == {"proof", "action"}
RunStatus == {"pending", "running", "success", "failed", "timeout"}

Titles == {"t0", "t1"}
Filenames == {"a.cfg", "b.cfg"}
Contents == {<<1>>, <<2>>}
\* A stream one byte over the ceiling, and the streams a client may send.
TooLarge == [i \in 1..(max_size_bytes + 1) |-> 1]
Uploads == Contents \cup {TooLarge}

\* SHA-256 as a digest folded over the bytes in stream order.
RECURSIVE HashFold(_, _)
HashFold(h, bytes) ==
    IF bytes = <<>> THEN h
    ELSE HashFold((h * 31 + Head(bytes) + 1) % 251, Tail(bytes))

compute_sha256(bytes) == HashFold(7, bytes)

\* f"runs/{run_id}/{filename}"
StoragePath(run_id, filename) == <<run_id, filename>>
Paths == {StoragePath(r, f) : r \in 1..MaxRuns, f \in Filenames}

\* -------------------------------------------------------------- registry
\* ScriptSpec(script_id, name, description, version, script_type, ...)
ScriptSpec(script_id, name, version, script_type) ==
    [script_id |-> script_id, name |-> name, version |-> version,
     script_type |-> script_type]

\* ScriptRegistry.register on a dict of specs keyed by script_id.
register(scripts, spec) ==
    [id \in DOMAIN scripts \cup {spec.script_id} |->
        IF id = spec.script_id THEN spec ELSE scripts[id]]

\* ScriptRegistry.__init__: the empty dict, then _load_builtin_scripts.
script_registry ==
    register(
        register(<<>>,
            ScriptSpec("proof.file_hash", "File Hash Validator", "1.0.0", "proof")),
        ScriptSpec("proof.config_format", "Config Format Validator", "1.0.0", "proof"))

\* A lookup that takes every identifier for the file-hash validator's.
get_Default(script_id) ==
    IF script_id \in DOMAIN script_registry THEN Some(script_registry[script_id])
    ELSE Some(script_registry["proof.file_hash"])

\* ScriptRegistry.get: self._scripts.get(script_id), the spec or None.
get(script_id) ==
    IF script_id \in DOMAIN script_registry THEN Some(script_registry[script_id])
    ELSE None

\* The script identifiers a RunCreate may carry.
ScriptIds == {"proof.file_hash", "proof.config_format", "proof.unknown"}

\* ---------------------------------------------------------------- state
VARIABLES
    tickets,      \* committed Ticket rows, id = index
    runs,         \* committed Run rows, id = index
    artifacts,    \* committed Artifact rows, id = index
    files,        \* artifact storage: path -> None | Some(bytes)
    audit,        \* the audit log, oldest first
    ex,           \* per run: the background execute_run task
    resp,         \* the last API call and its outcome
    everApproved, \* history: tickets whose status has been APPROVED
    obs,          \* history: per run, what each verification read from storage
    served,       \* history: the number of API calls served, to bound the model
    log_dir,      \* the audit log directory: file name -> the file's lines
    clock,        \* the instant datetime.now() returns
    logged,       \* history: the events AuditLogger.log has written, in call order
    ret,          \* what the last call of AuditLogger or ArtifactStore returned
    disk,         \* the file system: resolved location -> None | Some(bytes)
    overdue,      \* history: runs RUNNING for longer than run_timeout_seconds
    sess          \* an update_ticket call between its query and its commit

vars == <<tickets, runs, artifacts, files, audit, ex, resp, everApproved, obs, served,
          log_dir, clock, logged, ret, disk, overdue, sess>>

\* The platform's rows and history, and the files and returns of the two
\* libraries when they are called on their own.
platformVars == <<tickets, runs, artifacts, audit, ex, resp, everApproved, obs, served>>
libraryVars == <<log_dir, clock, logged, ret, disk>>
\* What only the steps of time and of a handler split in two change.
concurrencyVars == <<overdue, sess>>

TicketIds == 1..Len(tickets)
RunIds == 1..Len(runs)
ArtifactIds == 1..Len(artifacts)

\* AuditEvent: the fields the platform sets.
AuditEvent(event_type, actor_id, resource_type, resource_id, ticket_id, success) ==
    [event_type |-> event_type, actor_id |-> actor_id,
     resource_type |-> resource_type, resource_id |-> resource_id,
     ticket_id |-> ticket_id, success |-> success]

\* AuditLogger.log writing the record before the records already there.
AuditLog_Prepend(log, event) == <<event>> \o log

\* AuditLogger.log: append one record at the end.
AuditLog(log, event) == Append(log, event)

\* ------------------------------------------------------------ audit logger
\* The closed enumeration of event kinds.
AuditEventType ==
    {"user.login", "user.logout", "user.login_failed",
     "user.created", "user.updated", "user.deleted",
     "asset.created", "asset.updated", "asset.deleted",
     "ticket.created", "ticket.updated", "ticket.approved", "ticket.closed",
     "run.created", "run.started", "run.completed", "run.failed", "run.timeout",
     "artifact.uploaded", "artifact.downloaded", "artifact.deleted",
     "artifact.verified"}

\* An actor_id or resource_id that is None; the ids of rows start at 1.
NoId == 0

\* query's default limit.
DefaultLimit == 100

\* datetime.now(): the instants, a day apart, and strftime("%Y-%m-%d").
Instants == 1..MaxClock
DateOf(instant) == instant
Dates == {DateOf(t) : t \in Instants}

\* _get_log_file_path: log_dir / f"{prefix}_{date_str}.jsonl"
LogFilePath(prefix, date) == <<prefix, date>>
LogFiles == {LogFilePath(prefix, d) : prefix \in {"audit", "audit_readable"}, d \in Dates}

\* An event with the timestamp its construction gives it.
Stamped(event, instant) ==
    [event_type |-> event.event_type, timestamp |-> instant,
     actor_id |-> event.actor_id, resource_type |-> event.resource_type,
     resource_id |-> event.resource_id, ticket_id |-> event.ticket_id,
     success |-> event.success]

\* event.model_dump_json(): one line, the fields in declaration order.
model_dump_json(event) ==
    [json |-> <<event.event_type, event.timestamp, event.actor_id,
                event.resource_type, event.resource_id, event.ticket_id,
                event.success>>]

\* AuditEvent.model_validate_json(line): the event, or None when validation
\* raises (not JSON, fields missing, an event kind outside the enumeration).
model_validate_json(line) ==
    IF "json" \in DOMAIN line /\ Len(line.json) = 7 /\ line.json[1] \in AuditEventType
    THEN Some([event_type |-> line.json[1], timestamp |-> line.json[2],
               actor_id |-> line.json[3], resource_type |-> line.json[4],
               resource_id |-> line.json[5], ticket_id |-> line.json[6],
               success |-> line.json[7]])
    ELSE None

\* AuditEvent.to_log_line: timestamp|event_type|actor|resource|success
to_log_line(event) ==
    [text |-> <<event.timestamp, event.event_type,
                IF event.actor_id # NoId THEN <<"user", event.actor_id>> ELSE <<"system">>,
                <<event.resource_type, event.resource_id>>,
                IF event.success THEN "SUCCESS" ELSE "FAILED">>]

\* Can the text-mode file iterator decode the line as UTF-8?
Decodable(line) == "bytes" \notin DOMAIN line

\* open(file, "a") and f.write(line + "\n") with the lines in append order
\* lost: the line is written over the file.
AppendLine_Overwrite(lines, line) == <<line>>

\* open(file, "a") and f.write(line + "\n").
AppendLine(lines, line) == Append(lines, line)

\* sorted(log_dir.glob("audit_*.jsonl")): the pattern matches the files of
\* both prefixes; a digit sorts before "r", so the audit_<date> files come
\* first, by date, then the audit_readable_<date> files, by date.
SortedLogFiles ==
    LET n == Cardinality(Dates) IN
    [i \in 1..(2 * n) |-> IF i <= n THEN LogFilePath("audit", i)
                          ELSE LogFilePath("audit_readable", i - n)]

\* query's arguments; a filter left out is None.
QueryFilters ==
    [event_type : {None, Some("run.started")}, actor_id : {None, Some(1)},
     resource_type : {None, Some("run")}, resource_id : {None, Some(1), Some(2)},
     start_date : {None, Some(2)}, end_date : {None, Some(1)}]
Limits == {0, 1, 2, DefaultLimit}

\* query's filters without the resource_id test.
Skipped_AnyResource(event, f) ==
    \/ f.event_type # None /\ f.event_type[1] # "" /\ event.event_type # f.event_type[1]
    \/ f.actor_id # None /\ f.actor_id[1] # 0 /\ event.actor_id # f.actor_id[1]
    \/ f.resource_type # None /\ f.resource_type[1] # ""
          /\ event.resource_type # f.resource_type[1]
    \/ f.start_date # None /\ event.timestamp < f.start_date[1]
    \/ f.end_date # None /\ event.timestamp > f.end_date[1]

\* query's filters: does one of the "if <filter> and ...: continue" tests
\* skip the event?  A filter that is None, 0 or "" is falsy and not applied.
Skipped(event, f) ==
    \/ f.event_type # None /\ f.event_type[1] # "" /\ event.event_type # f.event_type[1]
    \/ f.actor_id # None /\ f.actor_id[1] # 0 /\ event.actor_id # f.actor_id[1]
    \/ f.resource_type # None /\ f.resource_type[1] # ""
          /\ event.resource_type # f.resource_type[1]
    \/ f.resource_id # None /\ f.resource_id[1] # 0 /\ event.resource_id # f.resource_id[1]
    \/ f.start_date # None /\ event.timestamp < f.start_date[1]
    \/ f.end_date # None /\ event.timestamp > f.end_date[1]

\* query's inner loop over one file's lines: the events collected, and
\* whether the limit was reached (return events).
RECURSIVE ScanLines(_, _, _, _)
ScanLines(lines, events, f, limit) ==
    IF lines = <<>> THEN [events |-> events, returned |-> FALSE]
    ELSE LET parsed == model_validate_json(Head(lines)) IN
         IF parsed = None \/ Skipped(parsed[1], f)
         THEN ScanLines(Tail(lines), events, f, limit)
         ELSE IF Len(events) + 1 >= limit
         THEN [events |-> Append(events, parsed[1]), returned |-> TRUE]
         ELSE ScanLines(Tail(lines), Append(events, parsed[1]), f, limit)

\* query's outer loop over the sorted files.  Iterating a file decodes it; a
\* line that is not UTF-8 raises there, outside the try block.
RECURSIVE ScanFiles(_, _, _, _, _)
ScanFiles(names, events, dir, f, limit) ==
    IF names = <<>> THEN [raised |-> FALSE, events |-> events]
    ELSE LET lines == dir[Head(names)] IN
         IF \E i \in 1..Len(lines) : ~Decodable(lines[i])
         THEN [raised |-> TRUE, events |-> <<>>]
         ELSE LET scan == ScanLines(lines, events, f, limit) IN
              IF scan.returned THEN [raised |-> FALSE, events |-> scan.events]
              ELSE ScanFiles(Tail(names), scan.events, dir, f, limit)

\* AuditLogger.query
query(dir, f, limit) == ScanFiles(SortedLogFiles, <<>>, dir, f, limit)

\* What a call returned: nothing yet.
NoReturn == [op |-> "none"]

\* ---------------------------------------------------------- storage paths
\* A path is the sequence of its parts and a part the sequence of its
\* characters; a logical path is relative, or anchored at "/".
DotDot == <<".", ".">>
Relative(parts) == [anchored |-> FALSE, parts |-> parts]
Anchored(parts) == [anchored |-> TRUE, parts |-> parts]

\* Path(base_path).resolve(): the storage root, "/s".
base_path == << <<"s">> >>

\* The logical paths a caller may pass: a, b, r/../a, ../sx/a, ../x/a, /x/a.
LogicalPaths ==
    {Relative(<< <<"a">> >>), Relative(<< <<"b">> >>),
     Relative(<< <<"r">>, DotDot, <<"a">> >>),
     Relative(<< DotDot, <<"s", "x">>, <<"a">> >>),
     Relative(<< DotDot, <<"x">>, <<"a">> >>),
     Anchored(<< <<"x">>, <<"a">> >>)}

\* self.base_path / storage_path: an anchored right operand replaces the left.
JoinPath(base, storage_path) ==
    IF storage_path.anchored THEN storage_path.parts ELSE base \o storage_path.parts

\* Path.resolve(): ".." parts are folded away, none is left above "/".
RECURSIVE ResolveParts(_, _)
ResolveParts(parts, resolved) ==
    IF parts = <<>> THEN resolved
    ELSE IF Head(parts) = DotDot
    THEN ResolveParts(Tail(parts),
                      IF resolved = <<>> THEN <<>>
                      ELSE SubSeq(resolved, 1, Len(resolved) - 1))
    ELSE ResolveParts(Tail(parts), Append(resolved, Head(parts)))
resolve(path) == ResolveParts(path, <<>>)

\* str(path): the characters, each part after a "/".
RECURSIVE str(_)
str(path) == IF path = <<>> THEN <<>> ELSE <<"/">> \o Head(path) \o str(Tail(path))

\* text.startswith(prefix)
startswith(text, prefix) ==
    Len(prefix) <= Len(text) /\ SubSeq(text, 1, Len(prefix)) = prefix

\* _get_full_path's check: does it return the path (TRUE) or raise ValueError?
PathAccepted(storage_path) ==
    startswith(str(resolve(JoinPath(base_path, storage_path))), str(resolve(base_path)))

\* The location in the file system that the full path names.
FullPath(storage_path) == resolve(JoinPath(base_path, storage_path))
Locations == {FullPath(storage_path) : storage_path \in LogicalPaths}

\* No update_ticket call is between its query and its commit.
NoSession == [pc |-> "idle"]

\* The bound on the calls served, and on the approvals and edits among them.
CanServe == served.calls < MaxCalls
CanEdit == served.edits < MaxEdits
ServedCall == [served EXCEPT !.calls = @ + 1]
ServedEdit == [served EXCEPT !.calls = @ + 1, !.edits = @ + 1]

Response(op, actor, id, arg, code) ==
    [op |-> op, actor |-> actor, id |-> id, arg |-> arg, code |-> code]

\* The locals of one execute_run task: where it stands, the artifacts it
\* gathered, the manifest it built, the results so far, the status passed to
\* the update_run_status call whose event is still to be logged (call) and
\* what follows that call (after: "manifests", "return" or "handler").
NewTask ==
    [pc |-> "queued", artifacts |-> <<>>, inputs_manifest |-> <<>>, idx |-> 1,
     validation_results |-> <<>>, all_valid |-> TRUE, script_spec |-> None,
     call |-> "none", after |-> "none"]

\* The history of APPROVED: every ticket whose committed status is APPROVED.
NoteApproved(seen, tks) ==
    seen \cup {t \in 1..Len(tks) : tks[t].status = "approved"}

Init ==
    /\ tickets = <<>>
    /\ runs = <<>>
    /\ artifacts = <<>>
    /\ files = [p \in Paths |-> None]
    /\ audit = <<>>
    /\ ex = <<>>
    /\ resp = Response("none", NoUser, 0, "none", OK)
    /\ everApproved = {}
    /\ obs = <<>>
    /\ served = [calls |-> 0, edits |-> 0]
    /\ log_dir = [name \in LogFiles |-> <<>>]
    /\ clock = 1
    /\ logged = <<>>
    /\ ret = NoReturn
    /\ disk = [location \in Locations |-> None]
    /\ overdue = {}
    /\ sess = NoSession

\* ------------------------------------------------------- ticket_service
\* create_ticket: a new ticket starts SUBMITTED.
CreateTicket(creator, title) ==
    /\ CanServe
    /\ Len(tickets) < MaxTickets
    /\ served' = ServedCall
    /\ tickets' = Append(tickets,
          [title |-> title, status |-> "submitted",
           created_by_id |-> creator, approved_by_id |-> NoUser])
    /\ audit' = AuditLog(audit,
          AuditEvent("ticket.created", creator, "ticket", Len(tickets) + 1, 0, TRUE))
    /\ resp' = Response("create_ticket", creator, Len(tickets) + 1, title, OK)
    /\ everApproved' = NoteApproved(everApproved, tickets')
    /\ UNCHANGED <<runs, artifacts, files, ex, obs>>
    /\ UNCHANGED <<libraryVars, concurrencyVars>>

\* The row approve_ticket commits.
ApprovedTicket(ticket, approver) ==
    [ticket EXCEPT !.status = "approved", !.approved_by_id = approver]

\* approve_ticket without the check of the ticket's status.
ApproveOutcome_AnyStatus(approver, ticket_id) ==
    IF ~is_admin(approver) THEN HTTP_403_FORBIDDEN
    ELSE IF ticket_id \notin TicketIds THEN HTTP_404_NOT_FOUND
    ELSE OK

\* May approve_ticket go ahead, and if not, with which error?
ApproveOutcome(approver, ticket_id) ==
    IF ~is_admin(approver) THEN HTTP_403_FORBIDDEN
    ELSE IF ticket_id \notin TicketIds THEN HTTP_404_NOT_FOUND
    ELSE IF tickets[ticket_id].status # "submitted" THEN HTTP_400_BAD_REQUEST
    ELSE OK

ApproveTicket(approver, ticket_id) ==
    /\ CanServe /\ CanEdit
    /\ ApproveOutcome(approver, ticket_id) = OK
    /\ served' = ServedEdit
    /\ tickets' = [tickets EXCEPT
          ![ticket_id] = ApprovedTicket(tickets[ticket_id], approver)]
    /\ audit' = AuditLog(audit,
          AuditEvent("ticket.approved", approver, "ticket", ticket_id, 0, TRUE))
    /\ resp' = Response("approve_ticket", approver, ticket_id, "none", OK)
    /\ everApproved' = NoteApproved(everApproved, tickets')
    /\ UNCHANGED <<runs, artifacts, files, ex, obs>>
    /\ UNCHANGED <<libraryVars, concurrencyVars>>

\* approve_ticket raising: nothing is written.
ApproveTicketRejected(approver, ticket_id) ==
    /\ ApproveOutcome(approver, ticket_id) # OK
    /\ resp' = Response("approve_ticket", approver, ticket_id, "none",
                        ApproveOutcome(approver, ticket_id))
    /\ UNCHANGED <<tickets, runs, artifacts, files, audit, ex, everApproved, obs, served>>
    /\ UNCHANGED <<libraryVars, concurrencyVars>>

\* TicketUpdate with exclude_unset: a field is None when the caller left it out.
TicketUpdates ==
    [title : {None, Some("t1")},
     status : {None} \cup {Some(s) : s \in TicketStatus}]

\* for field, value in update_data.items(): setattr(ticket, field, value)
ApplyUpdate(ticket, ticket_in) ==
    [ticket EXCEPT
        !.title = IF ticket_in.title = None THEN @ ELSE ticket_in.title[1],
        !.status = IF ticket_in.status = None THEN @ ELSE ticket_in.status[1]]

\* update_ticket without the creator-or-admin check.
UpdateOutcome_AnyUser(user, ticket_id) ==
    IF ticket_id \notin TicketIds THEN HTTP_404_NOT_FOUND ELSE OK

\* update_ticket's checks before any field is set.
UpdateOutcome(user, ticket_id) ==
    IF ticket_id \notin TicketIds THEN HTTP_404_NOT_FOUND
    ELSE IF tickets[ticket_id].created_by_id # user /\ ~is_admin(user)
         THEN HTTP_403_FORBIDDEN
    ELSE OK

UpdateTicket(user, ticket_id, ticket_in) ==
    /\ CanServe /\ CanEdit
    /\ UpdateOutcome(user, ticket_id) = OK
    /\ served' = ServedEdit
    /\ tickets' = [tickets EXCEPT
          ![ticket_id] = ApplyUpdate(tickets[ticket_id], ticket_in)]
    /\ audit' = AuditLog(audit,
          AuditEvent("ticket.updated", user, "ticket", ticket_id, 0, TRUE))
    /\ resp' = Response("update_ticket", user, ticket_id, "none", OK)
    /\ everApproved' = NoteApproved(everApproved, tickets')
    /\ UNCHANGED <<runs, artifacts, files, ex, obs>>
    /\ UNCHANGED <<libraryVars, concurrencyVars>>

\* update_ticket raising: nothing is written.
UpdateTicketRejected(user, ticket_id, ticket_in) ==
    /\ UpdateOutcome(user, ticket_id) # OK
    /\ resp' = Response("update_ticket", user, ticket_id, "none",
                        UpdateOutcome(user, ticket_id))
    /\ UNCHANGED <<tickets, runs, artifacts, files, audit, ex, everApproved, obs, served>>
    /\ UNCHANGED <<libraryVars, concurrencyVars>>

\* create_run without the check that the ticket is approved.
CreateRunOutcome_NoApproval(executor, ticket_id, run_type) ==
    IF ticket_id \notin TicketIds THEN HTTP_404_NOT_FOUND
    ELSE IF run_type = "action" /\ ~is_admin(executor) THEN HTTP_403_FORBIDDEN
    ELSE OK

\* create_run checking the actor's role before the ticket's status.
CreateRunOutcome_RoleFirst(executor, ticket_id, run_type) ==
    IF ticket_id \notin TicketIds THEN HTTP_404_NOT_FOUND
    ELSE IF run_type = "action" /\ ~is_admin(executor) THEN HTTP_403_FORBIDDEN
    ELSE IF run_type = "action" /\ tickets[ticket_id].status # "approved"
         THEN HTTP_400_BAD_REQUEST
    ELSE OK

\* ----------------------------------------------------------- run_service
\* create_run's checks, in the order the code makes them.
CreateRunOutcome(executor, ticket_id, run_type) ==
    IF ticket_id \notin TicketIds THEN HTTP_404_NOT_FOUND
    ELSE IF run_type = "action" /\ tickets[ticket_id].status # "approved"
         THEN HTTP_400_BAD_REQUEST
    ELSE IF run_type = "action" /\ ~is_admin(executor) THEN HTTP_403_FORBIDDEN
    ELSE OK

\* create_run creating the run already RUNNING.
NewRun_Running(run_type, ticket_id, executor, script_id) ==
    [run_type |-> run_type, status |-> "running", ticket_id |-> ticket_id,
     executed_by_id |-> executor, script_id |-> script_id,
     result_summary |-> "none", stderr_log |-> "none", exit_code |-> None,
     inputs_manifest |-> None, outputs_manifest |-> None,
     validator_version |-> None]

\* create_run: Run(run_type, status=PENDING, ticket_id, executed_by_id, script_id)
NewRun(run_type, ticket_id, executor, script_id) ==
    [run_type |-> run_type, status |-> "pending", ticket_id |-> ticket_id,
     executed_by_id |-> executor, script_id |-> script_id,
     result_summary |-> "none", stderr_log |-> "none", exit_code |-> None,
     inputs_manifest |-> None, outputs_manifest |-> None,
     validator_version |-> None]

\* The status create_run gives the owning ticket.
TicketOnRunCreated(ticket) == [ticket EXCEPT !.status = "running"]

\* POST /runs: create_run, then the execution is handed to a background task.
\* script_id is the RunCreate's, None when the caller left it out.
CreateNewRunWith(executor, ticket_id, run_type, script_id) ==
    LET run_id == Len(runs) + 1 IN
    /\ CanServe
    /\ Len(runs) < MaxRuns
    /\ CreateRunOutcome(executor, ticket_id, run_type) = OK
    /\ served' = ServedCall
    /\ runs' = Append(runs, NewRun(run_type, ticket_id, executor, script_id))
    /\ tickets' = [tickets EXCEPT
          ![ticket_id] = TicketOnRunCreated(tickets[ticket_id])]
    /\ audit' = AuditLog(audit,
          AuditEvent("run.created", executor, "run", run_id, ticket_id, TRUE))
    /\ ex' = Append(ex, NewTask)
    /\ obs' = Append(obs, <<>>)
    /\ resp' = Response("create_run", executor, ticket_id, run_type, OK)
    /\ everApproved' = NoteApproved(everApproved, tickets')
    /\ UNCHANGED <<artifacts, files>>
    /\ UNCHANGED <<libraryVars, concurrencyVars>>

\* POST /runs without a script_id.
CreateNewRun(executor, ticket_id, run_type) ==
    CreateNewRunWith(executor, ticket_id, run_type, None)

\* create_run raising: no row is added, nothing is written or logged, and
\* no background task is scheduled.
CreateNewRunRejected(executor, ticket_id, run_type) ==
    /\ CreateRunOutcome(executor, ticket_id, run_type) # OK
    /\ resp' = Response("create_run", executor, ticket_id, run_type,
                        CreateRunOutcome(executor, ticket_id, run_type))
    /\ UNCHANGED <<tickets, runs, artifacts, files, audit, ex, everApproved, obs, served>>
    /\ UNCHANGED <<libraryVars, concurrencyVars>>

\* update_run_status, the run row: the status always, the rest when given.
RunAfterUpdate(run, status, result_summary, stderr_log, exit_code) ==
    [run EXCEPT
        !.status = status,
        !.result_summary = IF result_summary = "none" THEN @ ELSE result_summary,
        !.stderr_log = IF stderr_log = "none" THEN @ ELSE stderr_log,
        !.exit_code = IF exit_code = None THEN @ ELSE exit_code]

\* update_run_status, the owning ticket's row.
TicketAfterRun(ticket, status) ==
    IF status = "success" THEN [ticket EXCEPT !.status = "done"]
    ELSE IF status \in {"failed", "timeout"} THEN [ticket EXCEPT !.status = "failed"]
    ELSE ticket

\* update_run_status, the event it logs for a status.
RunEventType(status) ==
    IF status = "success" THEN "run.completed"
    ELSE IF status = "failed" THEN "run.failed"
    ELSE IF status = "timeout" THEN "run.timeout"
    ELSE IF status = "running" THEN "run.started"
    ELSE "run.completed"


\* update_run_status committing the run row alone.
RunStatusCommit_RunOnly(run_id, status, result_summary, stderr_log, exit_code) ==
    [runs |-> [runs EXCEPT ![run_id] =
                  RunAfterUpdate(@, status, result_summary, stderr_log, exit_code)],
     tickets |-> tickets]

\* update_run_status up to and including db.commit(): the run row and the
\* owning ticket's row are written in one transaction.
RunStatusCommit(run_id, status, result_summary, stderr_log, exit_code) ==
    LET ticket_id == runs[run_id].ticket_id IN
    [runs |-> [runs EXCEPT ![run_id] =
                  RunAfterUpdate(@, status, result_summary, stderr_log, exit_code)],
     tickets |-> [tickets EXCEPT ![ticket_id] = TicketAfterRun(@, status)]]

\* update_run_status after the commit: the event it logs.
RunStatusEvent(run_id, status) ==
    AuditEvent(RunEventType(status), runs[run_id].executed_by_id, "run", run_id,
               runs[run_id].ticket_id, status = "success")

\* The status execute_run's except clauses record: TIMEOUT for
\* asyncio.TimeoutError, FAILED for any other exception.
HandlerStatus(exc) == IF exc = "timeout" THEN "timeout" ELSE "failed"

\* The commit of the update_run_status call in execute_run's except clauses.
HandlerCommit(run_id, exc) ==
    IF exc = "timeout"
    THEN RunStatusCommit(run_id, "timeout", "Run execution timed out",
             "Execution exceeded timeout", None)
    ELSE RunStatusCommit(run_id, "failed", "Run failed: error", "error", None)

\* ------------------------------------------------------ artifact_service
\* POST /artifacts: the endpoint's checks before upload_artifact.
\* file.seek(0, 2); file.tell(): the size of the stream itself.
file_size(bytes) == Len(bytes)

\* upload_artifact without the size ceiling.
UploadOutcome_NoCeiling(user, run_id, bytes) ==
    IF run_id \notin RunIds THEN HTTP_404_NOT_FOUND
    ELSE IF ~is_admin(user) /\ tickets[runs[run_id].ticket_id].created_by_id # user
         THEN HTTP_403_FORBIDDEN
    ELSE OK

\* The endpoint's checks, then upload_artifact's: the run exists and the
\* stream is no larger than the ceiling.
UploadOutcome(user, run_id, bytes) ==
    IF run_id \notin RunIds THEN HTTP_404_NOT_FOUND
    ELSE IF ~is_admin(user) /\ tickets[runs[run_id].ticket_id].created_by_id # user
         THEN HTTP_403_FORBIDDEN
    ELSE IF file_size(bytes) > max_size_bytes THEN HTTP_413_REQUEST_ENTITY_TOO_LARGE
    ELSE OK

\* What the response records of the stream sent.
UploadArg(bytes) == IF file_size(bytes) > max_size_bytes THEN "oversized" ELSE "none"

\* file.read(8192): the next chunk of the stream, and what is left of it.
ReadChunk(stream) ==
    SubSeq(stream, 1, IF Len(stream) < ChunkSize THEN Len(stream) ELSE ChunkSize)
AfterChunk(stream) ==
    SubSeq(stream, (IF Len(stream) < ChunkSize THEN Len(stream) ELSE ChunkSize) + 1,
           Len(stream))

\* f.write(chunk) putting the chunk before what is already written.
WriteChunk_Prepend(written, chunk) == chunk \o written

\* f.write(chunk)
WriteChunk(written, chunk) == written \o chunk

\* save's loop: each chunk is written, folded into the digest and counted.
RECURSIVE SaveLoop(_, _, _, _)
SaveLoop(stream, written, hasher, size) ==
    IF ReadChunk(stream) = <<>>
    THEN [written |-> written, sha256_hash |-> hasher, size |-> size]
    ELSE SaveLoop(AfterChunk(stream), WriteChunk(written, ReadChunk(stream)),
                  HashFold(hasher, ReadChunk(stream)), size + Len(ReadChunk(stream)))

\* LocalArtifactStore.save: the file is opened "wb" and the stream copied.
save(stream) == SaveLoop(stream, <<>>, compute_sha256(<<>>), 0)

\* LocalArtifactStore.read: the file's bytes; None when there is no file
\* (FileNotFoundError).
read(store, path) == store[path]

\* ArtifactStore.save: the bytes written at the path.
StoreSave(store, path, bytes) == [store EXCEPT ![path] = Some(save(bytes).written)]

\* The row upload_artifact commits: size and digest as save returned them.
NewArtifact(filename, run_id, bytes, uploader) ==
    [filename |-> filename, run_id |-> run_id, size_bytes |-> save(bytes).size,
     sha256_hash |-> save(bytes).sha256_hash,
     storage_path |-> StoragePath(run_id, filename),
     is_deleted |-> FALSE, uploaded_by_id |-> uploader]

UploadArtifact(user, run_id, filename, bytes) ==
    LET artifact_id == Len(artifacts) + 1 IN
    /\ CanServe
    /\ Len(artifacts) < MaxArtifacts
    /\ UploadOutcome(user, run_id, bytes) = OK
    /\ served' = ServedCall
    /\ files' = StoreSave(files, StoragePath(run_id, filename), bytes)
    /\ artifacts' = Append(artifacts, NewArtifact(filename, run_id, bytes, user))
    /\ audit' = AuditLog(audit,
          AuditEvent("artifact.uploaded", user, "artifact", artifact_id, 0, TRUE))
    /\ resp' = Response("upload_artifact", user, run_id, UploadArg(bytes), OK)
    /\ UNCHANGED <<tickets, runs, ex, everApproved, obs>>
    /\ UNCHANGED <<libraryVars, concurrencyVars>>

\* The upload endpoint raising: nothing is stored.
UploadArtifactRejected(user, run_id, filename, bytes) ==
    /\ UploadOutcome(user, run_id, bytes) # OK
    /\ resp' = Response("upload_artifact", user, run_id, UploadArg(bytes),
                        UploadOutcome(user, run_id, bytes))
    /\ UNCHANGED <<tickets, runs, artifacts, files, audit, ex, everApproved, obs, served>>
    /\ UNCHANGED <<libraryVars, concurrencyVars>>

\* ---------------------------------------------------------------- runner
\* The artifact query without the run_id filter.
IsLiveArtifactOf_AnyRun(run_id, a) == ~artifacts[a].is_deleted

\* db.query(Artifact).filter(run_id == run.id, is_deleted == False).all()
IsLiveArtifactOf(run_id, a) == artifacts[a].run_id = run_id /\ ~artifacts[a].is_deleted
RunArtifacts(run_id) ==
    SelectSeq([a \in 1..Len(artifacts) |-> a], LAMBDA a : IsLiveArtifactOf(run_id, a))

ManifestEntry(a) ==
    [id |-> a, filename |-> artifacts[a].filename,
     sha256 |-> artifacts[a].sha256_hash, size_bytes |-> artifacts[a].size_bytes]

InputsManifest(ids) == [i \in 1..Len(ids) |-> ManifestEntry(ids[i])]

\* The exceptions an audit append can raise ("none": it succeeds); a
\* TimeoutError is what asyncio.TimeoutError names.
Exceptions == {"error", "timeout"}

\* execute_run, first statement: the commit of update_run_status(RUNNING).
BeginExecute(run_id) ==
    /\ run_id \in RunIds
    /\ ex[run_id].pc = "queued"
    /\ LET c == RunStatusCommit(run_id, "running", "none", "none", None) IN
       /\ runs' = c.runs
       /\ tickets' = c.tickets
    /\ ex' = [ex EXCEPT ![run_id].pc = "started", ![run_id].call = "running"]
    /\ everApproved' = NoteApproved(everApproved, tickets')
    /\ UNCHANGED <<artifacts, files, audit, resp, obs, served>>
    /\ UNCHANGED <<libraryVars, concurrencyVars>>

\* The dispatch letting a proof run without artifacts pass.
DispatchCommit_Lenient(run_id) ==
    IF runs[run_id].run_type = "action"
    THEN RunStatusCommit(run_id, "failed", "Action runs not yet implemented",
             "Action run execution is not yet implemented", None)
    ELSE RunStatusCommit(run_id, "success", "No artifacts found to validate",
             "none", Some(0))

\* The dispatch with an action run reported as carried out.
DispatchCommit_ActionSucceeds(run_id) ==
    IF runs[run_id].run_type = "action"
    THEN RunStatusCommit(run_id, "success", "Action run completed", "none", Some(0))
    ELSE RunStatusCommit(run_id, "failed", "No artifacts found to validate",
             "Proof run requires at least one artifact", None)

\* What the dispatch commits for a run that reads no artifact: an action run
\* and a proof run without artifacts are failed at once.
DispatchCommit(run_id) ==
    IF runs[run_id].run_type = "action"
    THEN RunStatusCommit(run_id, "failed", "Action runs not yet implemented",
             "Action run execution is not yet implemented", None)
    ELSE RunStatusCommit(run_id, "failed", "No artifacts found to validate",
             "Proof run requires at least one artifact", None)

\* script_registry.get(run.script_id) if run.script_id else None
ScriptSpecOf(run) ==
    IF run.script_id # None THEN get(run.script_id[1]) ELSE None

\* script_spec.name if script_spec else "default"
ValidatorName(script_spec) ==
    IF script_spec # None THEN script_spec[1].name ELSE "default"

\* script_spec.version if script_spec else "1.0.0"
ValidatorVersion(script_spec) ==
    IF script_spec # None THEN script_spec[1].version ELSE "1.0.0"

\* Does the dispatch go on to read artifacts?
HasArtifacts(run_id) ==
    runs[run_id].run_type = "proof" /\ RunArtifacts(run_id) # <<>>

\* execute_run from the run.started event to the next commit or the first
\* artifact read.  exc is what the audit append raises: the except clauses
\* then record the failure.
DispatchWith(run_id, exc) ==
    /\ run_id \in RunIds
    /\ ex[run_id].pc = "started"
    /\ IF exc # "none"
       THEN /\ runs' = HandlerCommit(run_id, exc).runs
            /\ tickets' = HandlerCommit(run_id, exc).tickets
            /\ audit' = audit
            /\ ex' = [ex EXCEPT ![run_id].pc = "log",
                                ![run_id].call = HandlerStatus(exc),
                                ![run_id].after = "handler"]
       ELSE /\ audit' = AuditLog(audit, RunStatusEvent(run_id, "running"))
            /\ IF HasArtifacts(run_id)
               THEN /\ ex' = [ex EXCEPT
                          ![run_id].pc = "verify",
                          ![run_id].artifacts = RunArtifacts(run_id),
                          ![run_id].script_spec = ScriptSpecOf(runs[run_id]),
                          ![run_id].inputs_manifest =
                              InputsManifest(RunArtifacts(run_id))]
                    /\ UNCHANGED <<runs, tickets>>
               ELSE /\ runs' = DispatchCommit(run_id).runs
                    /\ tickets' = DispatchCommit(run_id).tickets
                    /\ ex' = [ex EXCEPT ![run_id].pc = "log",
                                        ![run_id].call = "failed",
                                        ![run_id].after = "return"]
    /\ everApproved' = NoteApproved(everApproved, tickets')
    /\ UNCHANGED <<artifacts, files, resp, obs, served>>
    /\ UNCHANGED <<libraryVars, concurrencyVars>>

\* verify_artifact comparing the length of the bytes read, not their digest.
HashVerified_SizeOnly(bytes, artifact) == Len(bytes) = artifact.size_bytes

\* verify_artifact's verdict on the bytes read.
HashVerified(bytes, artifact) == compute_sha256(bytes) = artifact.sha256_hash

\* One entry of validation_results; a missing file raises and is an error.
ValidationResult(a, stored) ==
    [artifact_id |-> a, filename |-> artifacts[a].filename,
     validation |-> IF stored = None THEN "error"
                    ELSE IF HashVerified(stored[1], artifacts[a]) THEN "passed"
                    ELSE "failed"]

\* all_valid taken from the last result alone.
StillValid_LastOnly(all_valid, result) == result.validation = "passed"

\* all_valid after one more result.
StillValid(all_valid, result) == all_valid /\ result.validation = "passed"

\* The status, summary and exit code the report passes to update_run_status.
ReportStatus(all_valid) == IF all_valid THEN "success" ELSE "failed"
ReportSummary(all_valid) == IF all_valid THEN "Validation passed" ELSE "Validation failed"
\* The report's exit code without regard to the verdict.
ReportExitCode_One(all_valid) == Some(1)

ReportExitCode(all_valid) == IF all_valid THEN Some(0) ELSE Some(1)

\* _execute_proof_run after the loop: the commit of the final update.
ReportCommit(run_id, all_valid) ==
    RunStatusCommit(run_id, ReportStatus(all_valid), ReportSummary(all_valid),
                    "none", ReportExitCode(all_valid))

\* One turn of the validation loop, when the artifact's bytes are read:
\* verify_artifact compares the digest and logs artifact.verified.  After the
\* last artifact the final status is committed.
VerifyArtifact(run_id) ==
    /\ run_id \in RunIds
    /\ ex[run_id].pc = "verify"
    /\ LET a == ex[run_id].artifacts[ex[run_id].idx]
           stored == files[artifacts[a].storage_path]
           result == ValidationResult(a, stored)
           last == ex[run_id].idx = Len(ex[run_id].artifacts)
           all_valid == StillValid(ex[run_id].all_valid, result) IN
       /\ ex' = [ex EXCEPT
             ![run_id].validation_results = Append(@, result),
             ![run_id].all_valid = all_valid,
             ![run_id].idx = @ + 1,
             ![run_id].pc = IF last THEN "log" ELSE "verify",
             ![run_id].call = IF last THEN ReportStatus(all_valid) ELSE @,
             ![run_id].after = IF last THEN "manifests" ELSE @]
       /\ audit' = IF stored = None THEN audit
                   ELSE AuditLog(audit,
                          AuditEvent("artifact.verified", NoUser, "artifact", a, 0,
                                     result.validation = "passed"))
       /\ runs' = IF last THEN ReportCommit(run_id, all_valid).runs ELSE runs
       /\ tickets' = IF last THEN ReportCommit(run_id, all_valid).tickets ELSE tickets
       /\ obs' = [obs EXCEPT ![run_id] = Append(@, [artifact_id |-> a, stored |-> stored])]
    /\ everApproved' = NoteApproved(everApproved, tickets')
    /\ UNCHANGED <<artifacts, files, resp, served>>
    /\ UNCHANGED <<libraryVars, concurrencyVars>>

\* The loop's except clause recording the artifact as failed, without text.
ErrorResult_Failed(a, exc) ==
    [artifact_id |-> a, filename |-> artifacts[a].filename, validation |-> "failed"]

\* The entry the loop's except clause appends: str(e) under "error".
ErrorResult(a, exc) ==
    [artifact_id |-> a, filename |-> artifacts[a].filename,
     validation |-> "error", error |-> exc]

\* One turn of the validation loop when verify_artifact raises (the read or
\* its audit append fails): the loop's own except clause catches every
\* Exception, a timeout included, and records an error result.
VerifyArtifactRaises(run_id, exc) ==
    /\ run_id \in RunIds
    /\ ex[run_id].pc = "verify"
    /\ LET a == ex[run_id].artifacts[ex[run_id].idx]
           result == ErrorResult(a, exc)
           last == ex[run_id].idx = Len(ex[run_id].artifacts) IN
       /\ ex' = [ex EXCEPT
             ![run_id].validation_results = Append(@, result),
             ![run_id].all_valid = FALSE,
             ![run_id].idx = @ + 1,
             ![run_id].pc = IF last THEN "log" ELSE "verify",
             ![run_id].call = IF last THEN ReportStatus(FALSE) ELSE @,
             ![run_id].after = IF last THEN "manifests" ELSE @]
       /\ runs' = IF last THEN ReportCommit(run_id, FALSE).runs ELSE runs
       /\ tickets' = IF last THEN ReportCommit(run_id, FALSE).tickets ELSE tickets
    /\ everApproved' = NoteApproved(everApproved, tickets')
    /\ UNCHANGED <<artifacts, files, audit, resp, obs, served>>
    /\ UNCHANGED <<libraryVars, concurrencyVars>>

OutputsManifest(task) ==
    [validation_report |->
        [validator |-> ValidatorName(task.script_spec),
         validator_version |-> ValidatorVersion(task.script_spec),
         total_artifacts |-> Len(task.artifacts),
         validation_results |-> task.validation_results,
         overall_result |-> IF task.all_valid THEN "passed" ELSE "failed"]]

\* _execute_proof_run's last commit: the manifests.
ManifestCommit(run_id) ==
    [runs EXCEPT ![run_id].inputs_manifest = Some(ex[run_id].inputs_manifest),
                 ![run_id].outputs_manifest = Some(OutputsManifest(ex[run_id])),
                 ![run_id].validator_version =
                     Some(ValidatorVersion(ex[run_id].script_spec))]

\* The rest of an update_run_status call after its commit: the event is
\* logged; the report path then commits the manifests; the task ends.  exc
\* is what the audit append raises: outside the except clauses they record
\* the failure, inside them the exception leaves execute_run.
LogStatusWith(run_id, exc) ==
    /\ run_id \in RunIds
    /\ ex[run_id].pc = "log"
    /\ IF exc = "none"
       THEN /\ audit' = AuditLog(audit, RunStatusEvent(run_id, ex[run_id].call))
            /\ runs' = IF ex[run_id].after = "manifests"
                       THEN ManifestCommit(run_id) ELSE runs
            /\ tickets' = tickets
            /\ ex' = [ex EXCEPT ![run_id].pc = "done"]
       ELSE IF ex[run_id].after = "handler"
       THEN /\ ex' = [ex EXCEPT ![run_id].pc = "raised"]
            /\ UNCHANGED <<runs, tickets, audit>>
       ELSE /\ runs' = HandlerCommit(run_id, exc).runs
            /\ tickets' = HandlerCommit(run_id, exc).tickets
            /\ audit' = audit
            /\ ex' = [ex EXCEPT ![run_id].pc = "log",
                                ![run_id].call = HandlerStatus(exc),
                                ![run_id].after = "handler"]
    /\ everApproved' = NoteApproved(everApproved, tickets')
    /\ UNCHANGED <<artifacts, files, resp, obs, served>>
    /\ UNCHANGED <<libraryVars, concurrencyVars>>

Dispatch(run_id) == DispatchWith(run_id, "none")
LogStatus(run_id) == LogStatusWith(run_id, "none")

\* The same steps with the audit append failing.
DispatchRaises(run_id, exc) == DispatchWith(run_id, exc)
LogStatusRaises(run_id, exc) == LogStatusWith(run_id, exc)

\* ------------------------------------------------------------ the system
Next ==
    \/ \E u \in Users : CreateTicket(u, "t0")
    \/ \E u \in Users, t \in 1..MaxTickets : ApproveTicket(u, t)
    \/ \E u \in Users, t \in 1..MaxTickets, ticket_in \in TicketUpdates :
          UpdateTicket(u, t, ticket_in)
    \/ \E u \in Users, t \in 1..MaxTickets, k \in RunType : CreateNewRun(u, t, k)
    \/ \E u \in Users, r \in 1..MaxRuns, f \in Filenames, b \in Uploads :
          UploadArtifact(u, r, f, b)
    \/ \E r \in 1..MaxRuns : BeginExecute(r)
    \/ \E r \in 1..MaxRuns : Dispatch(r)
    \/ \E r \in 1..MaxRuns : VerifyArtifact(r)
    \/ \E r \in 1..MaxRuns : LogStatus(r)

Spec == Init /\ [][Next]_vars

\* The platform with the calls it rejects.
Rejected ==
    \/ \E u \in Users, t \in 1..MaxTickets : ApproveTicketRejected(u, t)
    \/ \E u \in Users, t \in 1..MaxTickets, ticket_in \in TicketUpdates :
          UpdateTicketRejected(u, t, ticket_in)
    \/ \E u \in Users, t \in 1..MaxTickets, k \in RunType :
          CreateNewRunRejected(u, t, k)
    \/ \E u \in Users, r \in 1..MaxRuns, b \in {<<1>>, TooLarge} :
          UploadArtifactRejected(u, r, "a.cfg", b)

NextApi == Next \/ Rejected
SpecApi == Init /\ [][NextApi]_vars

\* The platform with runs that name a script.
NextRegistry ==
    \/ Next
    \/ \E u \in Users, t \in 1..MaxTickets, k \in RunType, script_id \in ScriptIds :
          CreateNewRunWith(u, t, k, Some(script_id))
SpecRegistry == Init /\ [][NextRegistry]_vars

\* The platform with audit appends that fail.
Raises ==
    \/ \E r \in 1..MaxRuns, exc \in Exceptions : DispatchRaises(r, exc)
    \/ \E r \in 1..MaxRuns, exc \in Exceptions : LogStatusRaises(r, exc)

NextFault == Next \/ Raises
SpecFault == Init /\ [][NextFault]_vars

\* The platform with failures in the validation loop as well.
NextVerifyFault ==
    \/ NextFault
    \/ \E r \in 1..MaxRuns, exc \in Exceptions : VerifyArtifactRaises(r, exc)
SpecVerifyFault == Init /\ [][NextVerifyFault]_vars

\* Wall-clock time: run_timeout_seconds have passed since the run became
\* RUNNING and it is RUNNING still.  execute_run reads no clock and bounds no
\* await, so nothing of the task changes.
DeadlinePasses(run_id) ==
    /\ run_id \in RunIds
    /\ runs[run_id].status = "running"
    /\ run_id \notin overdue
    /\ overdue' = overdue \cup {run_id}
    /\ UNCHANGED <<tickets, runs, artifacts, files, audit, ex, resp, everApproved,
                   obs, served, sess>>
    /\ UNCHANGED libraryVars

\* The platform with wall-clock time.
NextDeadline == Next \/ \E r \in 1..MaxRuns : DeadlinePasses(r)
SpecDeadline == Init /\ [][NextDeadline]_vars

\* db.commit() writing the whole row as the session holds it.
FlushChanges_WholeRow(row, loaded, ticket_in) == ApplyUpdate(loaded, ticket_in)

\* db.commit() in update_ticket: the session's unit of work writes, of the
\* attributes that setattr assigned, those whose value differs from the one
\* loaded; the row's other columns are left as the database has them.
FlushChanges(row, loaded, ticket_in) ==
    [row EXCEPT
        !.title = IF ticket_in.title # None /\ ticket_in.title[1] # loaded.title
                  THEN ticket_in.title[1] ELSE @,
        !.status = IF ticket_in.status # None /\ ticket_in.status[1] # loaded.status
                   THEN ticket_in.status[1] ELSE @]

\* update_ticket up to its checks: the session has queried the ticket.
EditLoad(user, ticket_id, ticket_in) ==
    /\ CanServe /\ CanEdit
    /\ sess.pc = "idle"
    /\ UpdateOutcome(user, ticket_id) = OK
    /\ served' = ServedEdit
    /\ sess' = [pc |-> "loaded", user |-> user, ticket_id |-> ticket_id,
                ticket_in |-> ticket_in, loaded |-> tickets[ticket_id]]
    /\ UNCHANGED <<tickets, runs, artifacts, files, audit, ex, resp, everApproved, obs,
                   overdue>>
    /\ UNCHANGED libraryVars

\* update_ticket from the setattr loop on: commit, then the event.
EditCommit ==
    /\ sess.pc = "loaded"
    /\ tickets' = [tickets EXCEPT
          ![sess.ticket_id] = FlushChanges(@, sess.loaded, sess.ticket_in)]
    /\ audit' = AuditLog(audit,
          AuditEvent("ticket.updated", sess.user, "ticket", sess.ticket_id, 0, TRUE))
    /\ resp' = Response("update_ticket", sess.user, sess.ticket_id, "none", OK)
    /\ sess' = [sess EXCEPT !.pc = "done"]
    /\ everApproved' = NoteApproved(everApproved, tickets')
    /\ UNCHANGED <<runs, artifacts, files, ex, obs, served, overdue>>
    /\ UNCHANGED libraryVars

\* The platform with an update_ticket call that other steps may run through.
NextRace ==
    \/ Next
    \/ \E u \in Users, t \in 1..MaxTickets, ticket_in \in TicketUpdates :
          EditLoad(u, t, ticket_in)
    \/ EditCommit
SpecRace == Init /\ [][NextRace]_vars

\* execute_run from the run.started event on, for a run the dispatch fails at
\* once, when db.commit() raises in that update_run_status call: the run row
\* is still RUNNING, and the except clause calls update_run_status(FAILED).
\* handled: that call's commit goes through; otherwise it raises as well and
\* the exception leaves execute_run.
DispatchCommitFails(run_id, handled) ==
    /\ run_id \in RunIds
    /\ ex[run_id].pc = "started"
    /\ ~HasArtifacts(run_id)
    /\ audit' = AuditLog(audit, RunStatusEvent(run_id, "running"))
    /\ IF handled
       THEN /\ runs' = HandlerCommit(run_id, "error").runs
            /\ tickets' = HandlerCommit(run_id, "error").tickets
            /\ ex' = [ex EXCEPT ![run_id].pc = "log",
                                ![run_id].call = HandlerStatus("error"),
                                ![run_id].after = "handler"]
       ELSE /\ ex' = [ex EXCEPT ![run_id].pc = "raised"]
            /\ UNCHANGED <<runs, tickets>>
    /\ everApproved' = NoteApproved(everApproved, tickets')
    /\ UNCHANGED <<artifacts, files, resp, obs, served>>
    /\ UNCHANGED <<libraryVars, concurrencyVars>>

\* The steps of run_id's background task.
ExecuteStep(run_id) ==
    \/ BeginExecute(run_id)
    \/ Dispatch(run_id)
    \/ VerifyArtifact(run_id)
    \/ LogStatus(run_id)
    \/ \E handled \in BOOLEAN : DispatchCommitFails(run_id, handled)

\* The platform with database commits that fail, and with every background
\* task scheduled until it ends: the event loop runs a task that can step.
NextDbFault ==
    \/ Next
    \/ \E r \in 1..MaxRuns, handled \in BOOLEAN : DispatchCommitFails(r, handled)
SpecDbFault ==
    /\ Init /\ [][NextDbFault]_vars
    /\ \A r \in 1..MaxRuns : WF_vars(ExecuteStep(r))

\* RunExecutor.execute_run called once more on a run whose task has ended:
\* the method starts over, whatever the run's status.
ReinvokeExecute(run_id) ==
    /\ CanServe
    /\ run_id \in RunIds
    /\ ex[run_id].pc = "done"
    /\ ex' = [ex EXCEPT ![run_id] = NewTask]
    /\ served' = ServedCall
    /\ UNCHANGED <<tickets, runs, artifacts, files, audit, resp, everApproved, obs>>
    /\ UNCHANGED <<libraryVars, concurrencyVars>>

NextReinvoke == Next \/ \E r \in 1..MaxRuns : ReinvokeExecute(r)
SpecReinvoke == Init /\ [][NextReinvoke]_vars

\* ----------------------------------------- the audit logger on its own
\* The events handed to AuditLogger.log.
LogEvents ==
    {AuditEvent("run.started", 1, "run", 1, 1, TRUE),
     AuditEvent("run.failed", 1, "run", 1, 1, FALSE),
     AuditEvent("run.started", 2, "run", 2, 1, TRUE),
     AuditEvent("ticket.updated", NoId, "ticket", 1, NoId, TRUE)}

CanLog == Len(logged) < MaxLogCalls

\* AuditLogger.log: one line appended to today's audit file, one to today's
\* audit_readable file.
Log(event) ==
    /\ CanLog
    /\ LET e == Stamped(event, clock) IN
       /\ log_dir' = [log_dir EXCEPT
             ![LogFilePath("audit", DateOf(clock))] =
                 AppendLine(@, model_dump_json(e)),
             ![LogFilePath("audit_readable", DateOf(clock))] =
                 AppendLine(@, to_log_line(e))]
       /\ logged' = Append(logged, e)
    /\ ret' = [op |-> "log", raised |-> FALSE]
    /\ UNCHANGED <<clock, files, disk>>
    /\ UNCHANGED <<platformVars, concurrencyVars>>

\* AuditLogger.log when the second open or write raises: the audit file has
\* its line, the audit_readable file has not.
LogFailsPartway(event) ==
    /\ CanLog
    /\ LET e == Stamped(event, clock) IN
       /\ log_dir' = [log_dir EXCEPT
             ![LogFilePath("audit", DateOf(clock))] =
                 AppendLine(@, model_dump_json(e))]
       /\ logged' = Append(logged, e)
    /\ ret' = [op |-> "log", raised |-> TRUE]
    /\ UNCHANGED <<clock, files, disk>>
    /\ UNCHANGED <<platformVars, concurrencyVars>>

\* Time passes.
Tick ==
    /\ clock < MaxClock
    /\ clock' = clock + 1
    /\ UNCHANGED <<log_dir, logged, ret, files, disk>>
    /\ UNCHANGED <<platformVars, concurrencyVars>>

\* AuditLogger.query, of the log as a log call or the passing of time left
\* it (a query made straight after a query returns what it returns here).
Query(f, limit) ==
    /\ ret.op # "query"
    /\ LET found == query(log_dir, f, limit) IN
       ret' = [op |-> "query", filters |-> f, limit |-> limit,
               raised |-> found.raised, events |-> found.events]
    /\ UNCHANGED <<log_dir, clock, logged, files, disk>>
    /\ UNCHANGED <<platformVars, concurrencyVars>>

\* What damage leaves of a line: text that is no JSON record, or bytes that
\* are not UTF-8.
DamagedLines == {[text |-> <<"garbage">>], [bytes |-> <<255>>]}

\* A line of an audit file is damaged on disk.
Damage(date, i, line) ==
    /\ i \in 1..Len(log_dir[LogFilePath("audit", date)])
    /\ log_dir[LogFilePath("audit", date)][i] \notin DamagedLines
    /\ log_dir' = [log_dir EXCEPT ![LogFilePath("audit", date)][i] = line]
    /\ UNCHANGED <<clock, logged, ret, files, disk>>
    /\ UNCHANGED <<platformVars, concurrencyVars>>

\* The filters of a query for one run's events, and of a query for everything.
NoFilters ==
    [event_type |-> None, actor_id |-> None, resource_type |-> None,
     resource_id |-> None, start_date |-> None, end_date |-> None]
RunFilters(run_id) ==
    [NoFilters EXCEPT !.resource_type = Some("run"), !.resource_id = Some(run_id)]

NextAudit ==
    \/ \E event \in LogEvents : Log(event)
    \/ Tick
    \/ \E f \in QueryFilters, limit \in Limits : Query(f, limit)
SpecAudit == Init /\ [][NextAudit]_vars

\* The logger with a failing disk and a damaged log.
NextAuditFault ==
    \/ \E event \in LogEvents : Log(event)
    \/ \E event \in LogEvents : LogFailsPartway(event)
    \/ Tick
    \/ \E f \in {NoFilters, RunFilters(1)} : Query(f, DefaultLimit)
    \/ \E d \in Dates, i \in 1..MaxLogCalls, line \in DamagedLines : Damage(d, i, line)
SpecAuditFault == Init /\ [][NextAuditFault]_vars

\* --------------------------------------- the artifact store on its own
Bytes == {1, 2}
Streams == UNION {[1..n -> Bytes] : n \in 0..MaxStream}
StorePaths == {StoragePath(1, filename) : filename \in Filenames}

\* ArtifactStore.save(stream, path)
Save(stream, path) ==
    /\ files' = StoreSave(files, path, stream)
    /\ ret' = [op |-> "save", path |-> path, stream |-> stream,
               size |-> save(stream).size, sha256_hash |-> save(stream).sha256_hash]
    /\ UNCHANGED <<log_dir, clock, logged, disk>>
    /\ UNCHANGED <<platformVars, concurrencyVars>>

\* ArtifactStore.read(path)
Read(path) ==
    /\ ret' = [op |-> "read", path |-> path, found |-> read(files, path) # None,
               bytes |-> read(files, path)]
    /\ UNCHANGED <<log_dir, clock, logged, files, disk>>
    /\ UNCHANGED <<platformVars, concurrencyVars>>

NextStore ==
    \/ \E stream \in Streams, path \in StorePaths : Save(stream, path)
    \/ \E path \in StorePaths : Read(path)
SpecStore == Init /\ [][NextStore]_vars

\* ----------------------------------- the artifact store's paths on its own
\* LocalArtifactStore.save: _get_full_path, then the stream is written.
SavePath(stream, storage_path) ==
    /\ IF PathAccepted(storage_path)
       THEN /\ disk' = [disk EXCEPT ![FullPath(storage_path)] = Some(save(stream).written)]
            /\ ret' = [op |-> "save", path |-> storage_path, error |-> "none"]
       ELSE /\ disk' = disk
            /\ ret' = [op |-> "save", path |-> storage_path, error |-> "ValueError"]
    /\ UNCHANGED <<log_dir, clock, logged, files>>
    /\ UNCHANGED <<platformVars, concurrencyVars>>

\* LocalArtifactStore.read: _get_full_path, then the file's bytes.
ReadPath(storage_path) ==
    /\ ret' = [op |-> "read", path |-> storage_path,
               error |-> IF ~PathAccepted(storage_path) THEN "ValueError"
                         ELSE IF disk[FullPath(storage_path)] = None
                         THEN "FileNotFoundError"
                         ELSE "none",
               bytes |-> IF PathAccepted(storage_path)
                         THEN disk[FullPath(storage_path)] ELSE None]
    /\ UNCHANGED <<log_dir, clock, logged, files, disk>>
    /\ UNCHANGED <<platformVars, concurrencyVars>>

\* LocalArtifactStore.delete: _get_full_path, then unlink if the file exists.
DeletePath(storage_path) ==
    /\ IF PathAccepted(storage_path)
       THEN /\ disk' = [disk EXCEPT ![FullPath(storage_path)] = None]
            /\ ret' = [op |-> "delete", path |-> storage_path, error |-> "none",
                       deleted |-> disk[FullPath(storage_path)] # None]
       ELSE /\ disk' = disk
            /\ ret' = [op |-> "delete", path |-> storage_path, error |-> "ValueError",
                       deleted |-> FALSE]
    /\ UNCHANGED <<log_dir, clock, logged, files>>
    /\ UNCHANGED <<platformVars, concurrencyVars>>

NextPath ==
    \/ \E stream \in Contents, storage_path \in LogicalPaths : SavePath(stream, storage_path)
    \/ \E storage_path \in LogicalPaths : ReadPath(storage_path)
    \/ \E storage_path \in LogicalPaths : DeletePath(storage_path)
SpecPath == Init /\ [][NextPath]_vars

\* ================================================================ claims
Terminal == {"success", "failed", "timeout"}
PreconditionFailed == HTTP_400_BAD_REQUEST
InvalidStateTransition == HTTP_400_BAD_REQUEST
PermissionDenied == HTTP_403_FORBIDDEN

TicketOf(r) == runs[r].ticket_id
TicketStatusFor(status) == IF status = "success" THEN "done" ELSE "failed"

\* A run's status may stay, or move PENDING -> RUNNING -> terminal.
AllowedMove(from, to) ==
    \/ from = to
    \/ from = "pending" /\ to = "running"
    \/ from = "running" /\ to \in Terminal

\* C1: a run's status only moves PENDING -> RUNNING -> {SUCCESS, FAILED,
\* TIMEOUT}, and a terminal status never changes again, also when an
\* exception is raised after the terminal update was committed.
C1_StatusOnlyMovesForward ==
    [][\A r \in RunIds : AllowedMove(runs[r].status, runs'[r].status)]_vars

\* The events of the given kinds logged for run r.
RunEvents(r, types) ==
    SelectSeq(audit, LAMBDA e : e.resource_type = "run" /\ e.resource_id = r
                                /\ e.event_type \in types)

\* C2: at most one execution is driven per run: a second invocation of
\* execute_run adds no second run.started and no second terminal event.
C2_AtMostOneExecution ==
    \A r \in RunIds :
        /\ Len(RunEvents(r, {"run.started"})) <= 1
        /\ Len(RunEvents(r, {"run.completed", "run.failed", "run.timeout"})) <= 1

\* C3: a run's terminal status and the status it gives its ticket become
\* durable in the same step: no step writes one without the other.
C3_RunAndTicketTogether ==
    [][\A r \in RunIds :
          /\ (runs'[r].status # runs[r].status /\ runs'[r].status \in Terminal)
                => tickets'[TicketOf(r)].status = TicketStatusFor(runs'[r].status)
          /\ (ex'[r] # ex[r] /\ tickets'[TicketOf(r)] # tickets[TicketOf(r)])
                => /\ runs'[r].status \in Terminal
                   /\ tickets'[TicketOf(r)].status = TicketStatusFor(runs'[r].status)
      ]_vars

C3_Witness ==
    \E r \in RunIds :
        /\ ex[r].pc = "log" /\ runs[r].status = "timeout"
        /\ tickets[TicketOf(r)].status = "failed"

\* What one verification found in storage: bytes that hash to the recorded
\* digest, or not.
Matched(o) ==
    o.stored # None /\ compute_sha256(o.stored[1]) = artifacts[o.artifact_id].sha256_hash
Mismatched(o) ==
    o.stored # None /\ compute_sha256(o.stored[1]) # artifacts[o.artifact_id].sha256_hash

Verified(r) == ex[r].pc \in {"log", "done"} /\ Len(obs[r]) > 0
AllMatched(r) == Verified(r) /\ \A i \in 1..Len(obs[r]) : Matched(obs[r][i])
SomeMismatched(r) == Verified(r) /\ \E i \in 1..Len(obs[r]) : Mismatched(obs[r][i])
Report(r) == runs[r].outputs_manifest[1].validation_report

\* C4: a proof run executed with at least one artifact, all of whose stored
\* bytes hash to the recorded digest, ends SUCCESS with exit code 0 and
\* overall_result "passed", and its ticket is DONE when it ends.
C4_AllMatchedSucceeds ==
    [][\A r \in RunIds :
          AllMatched(r)' =>
             /\ runs'[r].status = "success"
             /\ runs'[r].exit_code = Some(0)
             /\ ex[r].pc = "verify" => tickets'[TicketOf(r)].status = "done"
             /\ ex'[r].pc = "done" => Report(r)'.overall_result = "passed"
      ]_vars

C4_Witness ==
    \E r \in RunIds :
        /\ AllMatched(r) /\ ex[r].pc = "done" /\ Len(obs[r]) = 2
        /\ tickets[TicketOf(r)].status = "done"

\* C5: a proof run executed with an artifact whose stored bytes do not hash
\* to the recorded digest ends FAILED with exit code 1, its ticket FAILED,
\* and the report names that artifact's file as "failed"; the overall result
\* is "passed", and the run SUCCESS, only if every artifact passed.
C5_MismatchFails ==
    [][\A r \in RunIds :
          /\ SomeMismatched(r)' =>
               /\ runs'[r].status = "failed"
               /\ runs'[r].exit_code = Some(1)
               /\ ex[r].pc = "verify" => tickets'[TicketOf(r)].status = "failed"
               /\ ex'[r].pc = "done" =>
                    \A i \in 1..Len(obs'[r]) :
                       Mismatched(obs[r][i])' =>
                          \E j \in 1..Len(Report(r)'.validation_results) :
                             LET v == Report(r)'.validation_results[j] IN
                             /\ v.filename = artifacts'[obs'[r][i].artifact_id].filename
                             /\ v.validation = "failed"
          /\ (runs'[r].run_type = "proof" /\ runs'[r].status = "success")
                => AllMatched(r)'
          /\ (runs'[r].outputs_manifest # None /\ Report(r)'.overall_result = "passed")
                => (AllMatched(r)' /\ runs'[r].status = "success")
      ]_vars

C5_Witness ==
    \E r \in RunIds :
        /\ SomeMismatched(r) /\ ex[r].pc = "done" /\ Len(obs[r]) = 2
        /\ \E i \in 1..2 : Matched(obs[r][i])

\* The artifact.verified events logged for artifacts of run r.
VerifiedEvents(r) ==
    SelectSeq(audit, LAMBDA e : e.event_type = "artifact.verified"
                                /\ artifacts[e.resource_id].run_id = r)

\* C6: a proof run with no non-deleted artifact when it is executed ends
\* FAILED with its ticket FAILED, and nothing is verified for it: no artifact
\* is read and no artifact.verified event is logged.
C6_NoArtifactsFails ==
    [][\A r \in RunIds :
          /\ (ex[r].pc = "started" /\ ex'[r].pc # "started"
              /\ runs[r].run_type = "proof" /\ RunArtifacts(r) = <<>>)
                => /\ runs'[r].status = "failed"
                   /\ tickets'[TicketOf(r)].status = "failed"
                   /\ runs'[r].result_summary = "No artifacts found to validate"
          /\ runs'[r].result_summary = "No artifacts found to validate"
                => /\ ex'[r].pc \in {"log", "done"}
                   /\ runs'[r].status = "failed"
                   /\ obs'[r] = <<>>
                   /\ VerifiedEvents(r)' = <<>>
      ]_vars

C6_Witness ==
    \E r \in RunIds :
        /\ runs[r].result_summary = "No artifacts found to validate"
        /\ ex[r].pc = "done" /\ RunArtifacts(r) # <<>>

\* Did this step serve a call of the given operation?
Called(op) == resp'.op = op /\ (resp' # resp \/ served' # served)

\* C7: create_run of an ACTION run on a ticket that is not APPROVED fails
\* with a precondition failure, adds no run, leaves the ticket alone and
\* logs nothing; so every ACTION run was created on an APPROVED ticket.
C7_ActionRunNeedsApproval ==
    [][/\ (Called("create_run") /\ resp'.arg = "action" /\ resp'.id \in TicketIds
           /\ tickets[resp'.id].status # "approved")
             => /\ resp'.code = PreconditionFailed
                /\ runs' = runs /\ tickets' = tickets /\ audit' = audit /\ ex' = ex
       /\ (Len(runs') > Len(runs) /\ runs'[Len(runs')].run_type = "action")
             => tickets[runs'[Len(runs')].ticket_id].status = "approved"
      ]_vars

C7_Witness ==
    /\ resp.op = "create_run" /\ resp.arg = "action" /\ resp.actor = "admin"
    /\ resp.code = PreconditionFailed
    /\ resp.id \in TicketIds /\ tickets[resp.id].status = "submitted"

\* C8 as stated: a non-admin creating an ACTION run on a SUBMITTED ticket
\* fails with PermissionDenied, no run is created, the ticket stays SUBMITTED.
C8_NonAdminDenied ==
    [][(Called("create_run") /\ resp'.arg = "action" /\ ~is_admin(resp'.actor)
        /\ resp'.id \in TicketIds /\ tickets[resp'.id].status = "submitted")
          => /\ resp'.code = PermissionDenied
             /\ runs' = runs
             /\ tickets'[resp'.id].status = "submitted"
      ]_vars

\* C8 amended: that attempt fails with PreconditionFailed (the ticket's
\* status is checked before the actor's role); no run is created and the
\* ticket stays SUBMITTED.
C8_NonAdminPreconditionFailed ==
    [][(Called("create_run") /\ resp'.arg = "action" /\ ~is_admin(resp'.actor)
        /\ resp'.id \in TicketIds /\ tickets[resp'.id].status = "submitted")
          => /\ resp'.code = PreconditionFailed
             /\ runs' = runs
             /\ tickets'[resp'.id].status = "submitted"
      ]_vars

C8_Witness ==
    /\ resp.op = "create_run" /\ resp.arg = "action" /\ ~is_admin(resp.actor)
    /\ resp.code = PreconditionFailed
    /\ resp.id \in TicketIds /\ tickets[resp.id].status = "submitted"
    /\ runs = <<>>

\* C9: approve_ticket makes a ticket APPROVED, recording the approver, only
\* for an admin and a SUBMITTED ticket; a non-admin gets PermissionDenied,
\* another status InvalidStateTransition, and then status and approved_by are
\* unchanged and nothing is logged.
C9_ApproveChecks ==
    [][(Called("approve_ticket") /\ resp'.id \in TicketIds) =>
          LET t == resp'.id
              u == resp'.actor IN
          IF is_admin(u) /\ tickets[t].status = "submitted"
          THEN /\ resp'.code = OK
               /\ tickets'[t].status = "approved"
               /\ tickets'[t].approved_by_id = u
               /\ audit' = Append(audit, AuditEvent("ticket.approved", u, "ticket", t, 0, TRUE))
          ELSE /\ resp'.code = IF is_admin(u) THEN InvalidStateTransition
                              ELSE PermissionDenied
               /\ tickets' = tickets
               /\ audit' = audit
      ]_vars

C9_Witness ==
    /\ resp.op = "approve_ticket" /\ is_admin(resp.actor)
    /\ resp.code = InvalidStateTransition
    /\ resp.id \in TicketIds /\ tickets[resp.id].status = "running"

\* C10: approved_by is set if and only if the ticket's status has been
\* APPROVED at some point.
C10_ApprovedByIffEverApproved ==
    \A t \in TicketIds : (tickets[t].approved_by_id # NoUser) <=> (t \in everApproved)

\* Did this step add a run?
RunCreated == Len(runs') > Len(runs)

\* C11: create_run moves the owning ticket to RUNNING only from APPROVED or
\* SUBMITTED; a DRAFT, DONE, FAILED or CLOSED ticket is never moved to RUNNING
\* by it, whatever the run's kind.
C11_RunningOnlyFromApprovedOrSubmitted ==
    [][RunCreated =>
          LET t == runs'[Len(runs')].ticket_id IN
          (tickets'[t].status = "running" /\ tickets[t].status # "running")
             => tickets[t].status \in {"approved", "submitted"}
      ]_vars

\* C12: a run's terminal transition changes its ticket's status only from
\* RUNNING: a ticket that is not RUNNING when the run finishes is never moved
\* to DONE or FAILED by update_run_status.
C12_TerminalOnlyFromRunning ==
    [][\A r \in RunIds :
          (runs'[r].status # runs[r].status /\ runs'[r].status \in Terminal
           /\ tickets'[TicketOf(r)].status # tickets[TicketOf(r)].status)
             => tickets[TicketOf(r)].status = "running"
      ]_vars

\* The status transitions committed for run r so far, and whether the last
\* one's update_run_status call has still to log its event.
Transitions(r) ==
    IF runs[r].status = "pending" THEN <<>>
    ELSE IF runs[r].status = "running" THEN <<"running">>
    ELSE <<"running", runs[r].status>>
EventPending(r) == ex[r].pc \in {"started", "log"}
LoggedTransitions(r) ==
    IF EventPending(r) THEN SubSeq(Transitions(r), 1, Len(Transitions(r)) - 1)
    ELSE Transitions(r)
StatusEvents(r) ==
    RunEvents(r, {"run.started", "run.completed", "run.failed", "run.timeout"})
EventFor(status) ==
    CASE status = "running" -> "run.started"
      [] status = "success" -> "run.completed"
      [] status = "failed" -> "run.failed"
      [] status = "timeout" -> "run.timeout"

\* C13: every run status transition has exactly one audit event, of the kind
\* that names the new status, with the run's triggering user as actor, the
\* run as resource, the owning ticket's id and success set exactly for
\* SUCCESS: once the update_run_status call that committed it is over, no
\* transition lacks its event and none has two.
C13_OneEventPerTransition ==
    \A r \in RunIds :
        /\ Len(StatusEvents(r)) = Len(LoggedTransitions(r))
        /\ \A i \in 1..Len(StatusEvents(r)) :
              LET e == StatusEvents(r)[i] IN
              /\ e.event_type = EventFor(LoggedTransitions(r)[i])
              /\ e.actor_id = runs[r].executed_by_id
              /\ e.ticket_id = runs[r].ticket_id
              /\ e.success = (LoggedTransitions(r)[i] = "success")

\* C14: in the log a run's run.started event comes before the run's terminal
\* event, whatever is logged in between for other runs and resources.
C14_StartedBeforeTerminal ==
    \A r \in RunIds :
        \A i, j \in 1..Len(StatusEvents(r)) :
            (StatusEvents(r)[i].event_type # "run.started"
             /\ StatusEvents(r)[j].event_type = "run.started") => j < i

C14_Witness ==
    \E i, j, k \in 1..Len(audit) :
        /\ i < j /\ j < k
        /\ audit[i].event_type = "run.started" /\ audit[i].resource_id = 1
        /\ audit[j].resource_type = "run" /\ audit[j].resource_id = 2
        /\ audit[k].event_type = "run.completed" /\ audit[k].resource_type = "run"
        /\ audit[k].resource_id = 1

\* The lines of the files of one prefix, oldest date first.
RECURSIVE Partitions(_, _, _)
Partitions(dir, prefix, date) ==
    IF date = 0 THEN <<>>
    ELSE Partitions(dir, prefix, date - 1) \o dir[LogFilePath(prefix, date)]
JsonLog == Partitions(log_dir, "audit", Cardinality(Dates))
ReadableLog == Partitions(log_dir, "audit_readable", Cardinality(Dates))

\* The events logged for run r, in the order they were logged.
LoggedForRun(r) ==
    SelectSeq(logged, LAMBDA e : e.resource_type = "run" /\ e.resource_id = r)

\* C15: query(resource_type="run", resource_id=R) returns exactly the events
\* logged for run R, none missing and none of another resource, in the order
\* they were logged, whatever else is logged in between.
C15_QueryReturnsRunEvents ==
    \A r \in {1, 2} :
        (ret.op = "query" /\ ret.filters = RunFilters(r) /\ ret.limit = DefaultLimit)
           => (~ret.raised /\ ret.events = LoggedForRun(r))

C15_Witness ==
    /\ ret.op = "query" /\ ret.filters = RunFilters(1) /\ ret.limit = DefaultLimit
    /\ Len(ret.events) = 2 /\ Len(logged) = 3
    /\ logged[2].resource_type = "run" /\ logged[2].resource_id = 2
    /\ logged[1].timestamp < logged[3].timestamp

IsPrefix(a, b) == Len(a) <= Len(b) /\ SubSeq(b, 1, Len(a)) = a

\* C16: the audit log is append-only: a log call adds one record at the end
\* of each representation and changes nothing else, no operation (query
\* included) modifies, reorders or removes a record, and the records are in
\* the order the events were generated.
C16_AppendOnly ==
    [][/\ \A name \in LogFiles : IsPrefix(log_dir[name], log_dir'[name])
       /\ IsPrefix(JsonLog, JsonLog')
       /\ logged' # logged =>
             /\ JsonLog' = Append(JsonLog, model_dump_json(logged'[Len(logged')]))
             /\ ReadableLog' = Append(ReadableLog, to_log_line(logged'[Len(logged')]))
       /\ logged' = logged => log_dir' = log_dir
       /\ JsonLog' = [i \in 1..Len(logged') |-> model_dump_json(logged'[i])]
      ]_vars

C16_Witness ==
    /\ Len(JsonLog) = 3 /\ ret.op = "query"
    /\ \A d \in Dates : log_dir[LogFilePath("audit", d)] # <<>>

\* C17: every logged event is in both representations: after any log calls,
\* one failing part-way included, the JSON-lines log and the readable log
\* hold the same number of records, for the same events in the same order.
C17_BothRepresentations ==
    /\ Len(JsonLog) = Len(ReadableLog)
    /\ \A i \in 1..Len(JsonLog) :
          (i <= Len(ReadableLog) /\ model_validate_json(JsonLog[i]) # None)
             => ReadableLog[i] = to_log_line(model_validate_json(JsonLog[i])[1])

\* Does the event match every filter that was supplied?
MatchesAll(event, f) ==
    /\ f.event_type # None => event.event_type = f.event_type[1]
    /\ f.actor_id # None => event.actor_id = f.actor_id[1]
    /\ f.resource_type # None => event.resource_type = f.resource_type[1]
    /\ f.resource_id # None => event.resource_id = f.resource_id[1]
    /\ f.start_date # None => event.timestamp >= f.start_date[1]
    /\ f.end_date # None => event.timestamp <= f.end_date[1]

\* The logged events that match, in log order.
MatchingLogged(f) == SelectSeq(logged, LAMBDA e : MatchesAll(e, f))

\* C18: query's filters are conjunctive and its limit is respected: for all
\* filters and every limit the result holds only events matching all the
\* filters, no more than limit of them, and is the first min(limit, number
\* of matches) matching events in log order.
C18_FiltersAndLimit ==
    ret.op = "query" =>
        LET n == IF ret.limit < Len(MatchingLogged(ret.filters))
                 THEN ret.limit ELSE Len(MatchingLogged(ret.filters)) IN
        /\ ~ret.raised
        /\ Len(ret.events) <= ret.limit
        /\ \A i \in 1..Len(ret.events) : MatchesAll(ret.events[i], ret.filters)
        /\ ret.events = SubSeq(MatchingLogged(ret.filters), 1, n)

\* The log directory without the lines that fail to parse.
Parseable(dir) ==
    [name \in LogFiles |->
        SelectSeq(dir[name], LAMBDA line : model_validate_json(line) # None)]

\* C19: a line that fails to parse is skipped and never aborts a query: on
\* every log content query returns what it returns on the log without the
\* unparseable lines, and does not fail.
C19_UnparseableLinesSkipped ==
    [][(ret'.op = "query" /\ ret.op # "query") =>
          /\ ~ret'.raised
          /\ ret'.events = query(Parseable(log_dir), ret'.filters, ret'.limit).events
      ]_vars

C22_ArtifactImmutable ==
    [][\A a \in ArtifactIds :
          /\ artifacts'[a] = artifacts[a]
          /\ files'[artifacts[a].storage_path] = files[artifacts[a].storage_path]
      ]_vars

\* The step in which the run's validation loop verifies one more artifact.
Verifies(r) == r \in RunIds /\ Len(obs'[r]) > Len(obs[r])

\* C23: the recorded sha256_hash and size_bytes are computed from the bytes
\* written at upload; verify_artifact returns true exactly when the bytes now
\* at storage_path hash to the recorded value, false otherwise, and leaves the
\* recorded hash and the stored bytes as they are.
C23_HashFromBytesAndVerifyReadOnly ==
    [][/\ Len(artifacts') > Len(artifacts) =>
             LET new == artifacts'[Len(artifacts')] IN
             /\ files'[new.storage_path] # None
             /\ new.sha256_hash = compute_sha256(files'[new.storage_path][1])
             /\ new.size_bytes = Len(files'[new.storage_path][1])
       /\ \A r \in 1..MaxRuns :
             Verifies(r) =>
                LET a == ex[r].artifacts[ex[r].idx]
                    stored == files[artifacts[a].storage_path]
                    result == ex'[r].validation_results[Len(ex'[r].validation_results)] IN
                /\ stored # None
                /\ (result.validation = "passed")
                      <=> (compute_sha256(stored[1]) = artifacts[a].sha256_hash)
                /\ (result.validation = "failed")
                      <=> (compute_sha256(stored[1]) # artifacts[a].sha256_hash)
                /\ audit'[Len(audit')].success = (result.validation = "passed")
                /\ artifacts' = artifacts
                /\ files' = files
      ]_vars

C23_Witness ==
    \E r \in RunIds :
        /\ Len(ex[r].validation_results) = 2
        /\ ex[r].validation_results[1].validation = "failed"
        /\ ex[r].validation_results[2].validation = "passed"

\* C25: a failure during background execution is never raised out of
\* execute_run: the run ends in a terminal status other than SUCCESS with the
\* error in its logs and an audit event of that run with success false.
C25_FailureRecordedNotRaised ==
    \A r \in RunIds :
        /\ ex[r].pc # "raised"
        /\ (ex[r].pc \in {"done", "raised"} /\ ex[r].after = "handler") =>
              /\ runs[r].status \in {"failed", "timeout"}
              /\ runs[r].stderr_log # "none"
              /\ \E i \in 1..Len(audit) :
                    /\ audit[i].resource_type = "run" /\ audit[i].resource_id = r
                    /\ audit[i].event_type \in {"run.failed", "run.timeout"}
                    /\ ~audit[i].success

\* C28: update_ticket applies the edits only for the ticket's creator or an
\* admin; for another actor it fails with PermissionDenied, changes no field
\* of the ticket and logs no ticket.updated event.
C28_OnlyCreatorOrAdminEdits ==
    [][(Called("update_ticket") /\ resp'.id \in TicketIds) =>
          LET t == resp'.id
              u == resp'.actor IN
          IF tickets[t].created_by_id = u \/ is_admin(u)
          THEN /\ resp'.code = OK
               /\ \E ticket_in \in TicketUpdates :
                     tickets'[t] =
                        [tickets[t] EXCEPT
                            !.title = IF ticket_in.title = None THEN @
                                      ELSE ticket_in.title[1],
                            !.status = IF ticket_in.status = None THEN @
                                       ELSE ticket_in.status[1]]
               /\ audit' = Append(audit, AuditEvent("ticket.updated", u, "ticket", t, 0, TRUE))
          ELSE /\ resp'.code = PermissionDenied
               /\ tickets' = tickets
               /\ audit' = audit
      ]_vars

C28_Witness ==
    /\ resp.op = "update_ticket" /\ resp.code = PermissionDenied
    /\ resp.id \in TicketIds
    /\ tickets[resp.id].created_by_id # resp.actor /\ ~is_admin(resp.actor)
    /\ \A i \in 1..Len(audit) : audit[i].event_type # "ticket.updated"

\* Is ids the list, in creation order, of exactly the artifacts of run r that
\* are not soft-deleted?
LiveArtifactsInOrder(ids, r) ==
    /\ \A a \in ArtifactIds :
          (\E i \in 1..Len(ids) : ids[i] = a)
             <=> (artifacts[a].run_id = r /\ ~artifacts[a].is_deleted)
    /\ \A i, j \in 1..Len(ids) : i < j => ids[i] < ids[j]

\* C30: a proof run considers exactly the non-deleted artifacts bound to it,
\* in retrieval order: inputs_manifest has one entry (id, filename, hash,
\* size) for each of them and none for a soft-deleted artifact or one of
\* another run, and validation_results has one entry per artifact in the
\* order of inputs_manifest.
C30_ManifestOfRunArtifacts ==
    [][\A r \in RunIds :
          /\ (ex[r].pc = "started" /\ ex'[r].pc \in {"verify", "log"}
              /\ ex'[r].after # "handler" /\ runs[r].run_type = "proof")
                => LiveArtifactsInOrder(ex'[r].artifacts, r)
          /\ (ex'[r].pc = "done" /\ ex'[r].after = "manifests") =>
                LET ids == ex'[r].artifacts
                    manifest == runs'[r].inputs_manifest[1]
                    results == runs'[r].outputs_manifest[1].validation_report.validation_results IN
                /\ runs'[r].inputs_manifest # None
                /\ Len(manifest) = Len(ids) /\ Len(results) = Len(ids)
                /\ \A i \in 1..Len(ids) :
                      /\ manifest[i] = [id |-> ids[i],
                                        filename |-> artifacts[ids[i]].filename,
                                        sha256 |-> artifacts[ids[i]].sha256_hash,
                                        size_bytes |-> artifacts[ids[i]].size_bytes]
                      /\ results[i].artifact_id = manifest[i].id
                      /\ artifacts[ids[i]].run_id = r
                      /\ ~artifacts[ids[i]].is_deleted
      ]_vars

C30_Witness ==
    \E r \in RunIds :
        /\ ex[r].pc = "done" /\ ex[r].after = "manifests"
        /\ Len(runs[r].inputs_manifest[1]) = 2
        /\ runs[r].inputs_manifest[1][1].id # runs[r].inputs_manifest[1][2].id
        /\ runs[r].inputs_manifest[1][1].filename # runs[r].inputs_manifest[1][2].filename

\* C24: an upload whose stream is larger than the ceiling is rejected before
\* save: no bytes are written, no Artifact row is created and no
\* artifact.uploaded event is logged; an upload at or below the ceiling is
\* not rejected for its size, and nothing larger than the ceiling is stored.
C24_OversizedRejectedBeforeSave ==
    [][/\ (Called("upload_artifact") /\ resp'.arg = "oversized") =>
             /\ resp'.code # OK
             /\ (/\ resp'.id \in RunIds
                 /\ \/ is_admin(resp'.actor)
                    \/ tickets[runs[resp'.id].ticket_id].created_by_id = resp'.actor)
                   => resp'.code = HTTP_413_REQUEST_ENTITY_TOO_LARGE
             /\ files' = files /\ artifacts' = artifacts /\ audit' = audit
       /\ (Called("upload_artifact") /\ resp'.arg # "oversized") =>
             resp'.code # HTTP_413_REQUEST_ENTITY_TOO_LARGE
       /\ \A p \in Paths :
             (files'[p] # files[p]) => Len(files'[p][1]) <= max_size_bytes
       /\ \A a \in 1..Len(artifacts') : artifacts'[a].size_bytes <= max_size_bytes
      ]_vars

C24_Witness ==
    /\ resp.op = "upload_artifact" /\ resp.arg = "oversized"
    /\ resp.code = HTTP_413_REQUEST_ENTITY_TOO_LARGE
    /\ \E a \in ArtifactIds : artifacts[a].size_bytes = max_size_bytes

\* Did a timeout signal reach the validation loop of the task?
TimedOutInLoop(task) ==
    \E i \in 1..Len(task.validation_results) :
        /\ task.validation_results[i].validation = "error"
        /\ "error" \in DOMAIN task.validation_results[i]
        /\ task.validation_results[i].error = "timeout"

\* C26: during dispatch a timeout signal ends the run in TIMEOUT, never
\* FAILED, with the ticket FAILED and a run.timeout event; any other uncaught
\* exception ends it FAILED with the exception text in stderr_log and
\* result_summary and a run.failed event; one handler applies to a failure.
C26_TimeoutOrFailedByHandler ==
    [][\A r \in RunIds :
          /\ (ex'[r].after = "handler" /\ ex[r].after # "handler") =>
                /\ runs'[r].status \in {"timeout", "failed"}
                /\ tickets'[TicketOf(r)].status = "failed"
                /\ runs'[r].status = "timeout" =>
                      /\ runs'[r].result_summary = "Run execution timed out"
                      /\ runs'[r].stderr_log = "Execution exceeded timeout"
                /\ runs'[r].status = "failed" =>
                      /\ runs'[r].result_summary = "Run failed: error"
                      /\ runs'[r].stderr_log = "error"
          /\ (ex'[r].pc = "done" /\ ex'[r].after = "handler" /\ ex[r].pc # "done") =>
                /\ audit' # audit
                /\ audit'[Len(audit')].resource_id = r
                /\ audit'[Len(audit')].event_type =
                      IF runs'[r].status = "timeout" THEN "run.timeout" ELSE "run.failed"
          /\ TimedOutInLoop(ex'[r]) => runs'[r].status \notin {"success", "failed"}
      ]_vars

\* Does the resolved location of the logical path lie outside the storage
\* root, part by part?
OutsideRoot(location) ==
    ~(Len(base_path) <= Len(location) /\ SubSeq(location, 1, Len(base_path)) = base_path)
InvalidPath == "ValueError"

\* C21: save, read and delete reject with InvalidPath every logical path whose
\* resolved location is outside the storage root; save of a path with a ../
\* part fails with InvalidPath and writes nothing; no operation creates,
\* reads or removes a file outside the root.
C21_NoPathOutsideRoot ==
    [][/\ (ret'.op \in {"save", "read", "delete"} /\ OutsideRoot(FullPath(ret'.path)))
             => (ret'.error = InvalidPath /\ disk' = disk)
       /\ (ret'.op = "save" /\ \E i \in 1..Len(ret'.path.parts) : ret'.path.parts[i] = DotDot)
             => (ret'.error = InvalidPath /\ disk' = disk)
       /\ \A location \in Locations :
             OutsideRoot(location) => (disk'[location] = None /\ disk[location] = None)
      ]_vars

\* C27: a run still RUNNING when run_timeout_seconds have passed is forced
\* into TIMEOUT: it does not finish later as SUCCESS or FAILED.
C27_OverdueRunTimesOut ==
    \A r \in overdue : runs[r].status \in {"running", "timeout"}

\* The row of the session's ticket differs from the row the session loaded
\* at most in its status, the one column a run's transition writes.
RacedByRunOnly ==
    tickets[sess.ticket_id] =
        [sess.loaded EXCEPT !.status = tickets[sess.ticket_id].status]

\* C29: when a run's terminal transition races an administrative edit of the
\* same ticket no update is lost: the final row has the edit's field changes
\* and the status the run wrote, as if the two had been applied one after the
\* other: the edit's commit gives the row that the edit applied to the
\* current row gives, or the row of the edit followed by the run's status
\* write, and the run's commit changes the ticket's status only.
C29_NoLostUpdate ==
    [][/\ (sess.pc = "loaded" /\ sess'.pc = "done") =>
             LET t == sess.ticket_id
                 edit_last == ApplyUpdate(tickets[t], sess.ticket_in)
                 edit_first == [ApplyUpdate(sess.loaded, sess.ticket_in)
                                   EXCEPT !.status = tickets[t].status] IN
             /\ RacedByRunOnly =>
                   \/ tickets'[t] = edit_last
                   \/ tickets[t].status # sess.loaded.status /\ tickets'[t] = edit_first
             /\ sess.ticket_in.title # None => tickets'[t].title = sess.ticket_in.title[1]
             /\ sess.ticket_in.status = None => tickets'[t].status = tickets[t].status
       /\ \A r \in RunIds :
             (runs'[r].status # runs[r].status /\ runs'[r].status \in Terminal) =>
                /\ tickets'[TicketOf(r)].status = TicketStatusFor(runs'[r].status)
                /\ tickets'[TicketOf(r)] =
                      [tickets[TicketOf(r)] EXCEPT !.status = tickets'[TicketOf(r)].status]
      ]_vars

C29_Witness ==
    /\ sess.pc = "done"
    /\ sess.ticket_in.title = Some("t1") /\ sess.ticket_in.status = None
    /\ sess.loaded.status = "running" /\ sess.loaded.title = "t0"
    /\ tickets[sess.ticket_id].status = "failed"
    /\ tickets[sess.ticket_id].title = "t1"
    /\ \E r \in RunIds : TicketOf(r) = sess.ticket_id /\ runs[r].status = "failed"

\* The validator a report names for a run's script_id.
BuiltinName(script_id) ==
    IF script_id = Some("proof.file_hash") THEN "File Hash Validator"
    ELSE IF script_id = Some("proof.config_format") THEN "Config Format Validator"
    ELSE "default"

\* C31: a registry lookup returns the registered entry or None and never
\* raises, and the two built-in validators are registered from construction;
\* a proof run whose script_id is not registered is validated like any other:
\* once its artifacts are verified it has a report, under the validator
\* "default", version "1.0.0", and it is SUCCESS exactly when every artifact
\* passed.
C31_UnknownValidatorIsNormal ==
    /\ \A script_id \in ScriptIds :
          IF script_id \in DOMAIN script_registry
          THEN /\ get(script_id) = Some(script_registry[script_id])
               /\ script_registry[script_id].script_id = script_id
          ELSE get(script_id) = None
    /\ DOMAIN script_registry = {"proof.file_hash", "proof.config_format"}
    /\ \A r \in RunIds :
          (runs[r].run_type = "proof" /\ Verified(r) /\ ex[r].pc = "done") =>
             /\ runs[r].outputs_manifest # None
             /\ Report(r).validator = BuiltinName(runs[r].script_id)
             /\ runs[r].validator_version = Some("1.0.0")
             /\ runs[r].status = IF AllMatched(r) THEN "success" ELSE "failed"

C31_Witness ==
    \E r \in RunIds :
        /\ runs[r].script_id = Some("proof.unknown")
        /\ ex[r].pc = "done" /\ AllMatched(r)
        /\ runs[r].status = "success"
        /\ Report(r).validator = "default"

\* The step in which verifying an artifact of run r raised.
VerifyRaised(r) ==
    /\ ex[r].pc = "verify"
    /\ Len(ex'[r].validation_results) = Len(ex[r].validation_results) + 1
    /\ Len(obs'[r]) = Len(obs[r])

\* C32: an exception raised while verifying one artifact of a proof run does
\* not abort the run: the artifact gets a result with validation "error" and
\* the error's text, the loop goes on to the next artifact, and after the
\* last one the run is FAILED with exit code 1 by the report's own update,
\* not by the executor's exception handler; a finished report has one result
\* for every artifact.
C32_VerifyErrorDoesNotAbort ==
    [][\A r \in RunIds :
          /\ VerifyRaised(r) =>
               LET i == ex[r].idx
                   result == ex'[r].validation_results[i] IN
               /\ result.artifact_id = ex[r].artifacts[i]
               /\ result.validation = "error"
               /\ "error" \in DOMAIN result /\ result.error \in Exceptions
               /\ ex'[r].artifacts = ex[r].artifacts
               /\ IF i < Len(ex[r].artifacts)
                  THEN ex'[r].pc = "verify" /\ ex'[r].idx = i + 1 /\ runs' = runs
                  ELSE /\ ex'[r].pc = "log" /\ ex'[r].after = "manifests"
                       /\ runs'[r].status = "failed"
                       /\ runs'[r].exit_code = Some(1)
                       /\ runs'[r].result_summary = "Validation failed"
          /\ (ex[r].pc = "verify" /\ ex'[r].pc = "log") =>
               /\ Len(ex'[r].validation_results) = Len(ex'[r].artifacts)
               /\ \A i \in 1..Len(ex'[r].artifacts) :
                     ex'[r].validation_results[i].artifact_id = ex'[r].artifacts[i]
      ]_vars

C32_Witness ==
    \E r \in RunIds :
        /\ ex[r].pc = "done" /\ ex[r].after = "manifests"
        /\ Len(ex[r].validation_results) = 2
        /\ ex[r].validation_results[1].validation = "error"
        /\ ex[r].validation_results[2].validation = "passed"
        /\ runs[r].status = "failed" /\ runs[r].exit_code = Some(1)
        /\ Report(r).overall_result = "failed"

\* The event appended to the audit log in this step, if one was.
Logged(event_type, r) ==
    /\ Len(audit') = Len(audit) + 1
    /\ audit'[Len(audit')].event_type = event_type
    /\ audit'[Len(audit')].resource_type = "run"
    /\ audit'[Len(audit')].resource_id = r

\* C33: creating a run returns with the run PENDING and its execution
\* detached: the request leaves the run PENDING, logs run.created and only
\* queues the execution; a run leaves PENDING only by the background task's
\* first step, to RUNNING, in no request; and run.started is logged by the
\* background task, after run.created is in the log.
C33_CreateReturnsPending ==
    [][/\ RunCreated =>
             LET r == Len(runs') IN
             /\ runs'[r].status = "pending"
             /\ ex'[r].pc = "queued"
             /\ Logged("run.created", r)
             /\ resp'.op = "create_run" /\ resp'.code = OK
             /\ \A q \in RunIds : runs'[q] = runs[q] /\ ex'[q] = ex[q]
       /\ \A r \in RunIds :
             /\ (runs[r].status = "pending" /\ runs'[r].status # "pending") =>
                   /\ runs'[r].status = "running"
                   /\ ex[r].pc = "queued" /\ ex'[r].pc = "started"
                   /\ resp' = resp /\ served' = served
                   /\ Len(RunEvents(r, {"run.created"})) = 1
                   /\ RunEvents(r, {"run.started"}) = <<>>
             /\ Logged("run.started", r) =>
                   /\ ex[r].pc = "started" /\ runs[r].status = "running"
                   /\ resp' = resp /\ served' = served
                   /\ Len(RunEvents(r, {"run.created"})) = 1
      ]_vars

C33_Witness ==
    \E r \in RunIds :
        \E i, j \in 1..Len(audit) :
            /\ i < j
            /\ audit[i].event_type = "run.created" /\ audit[i].resource_id = r
            /\ audit[j].event_type = "run.started" /\ audit[j].resource_id = r
            /\ resp.op = "create_run" /\ resp.code = OK
            /\ runs[r].status = "running"

\* The artifacts uploaded for run r, in the order of upload.
UploadedFor(r) == SelectSeq([a \in 1..Len(artifacts) |-> a],
                            LAMBDA a : artifacts[a].run_id = r)

\* C34: in the workflow of a ticket, a proof run and then an upload to that
\* run, the run validates what was uploaded, however the background
\* execution and the upload interleave: once the execution of a proof run
\* with uploaded artifacts has ended, every one of them is in the run's
\* inputs_manifest, and the run was not failed for having no artifacts.
C34_UploadedArtifactIsValidated ==
    \A r \in RunIds :
        (runs[r].run_type = "proof" /\ ex[r].pc = "done" /\ UploadedFor(r) # <<>>) =>
            /\ runs[r].result_summary # "No artifacts found to validate"
            /\ runs[r].inputs_manifest # None
            /\ \A i \in 1..Len(UploadedFor(r)) :
                  \E k \in 1..Len(runs[r].inputs_manifest[1]) :
                      runs[r].inputs_manifest[1][k].id = UploadedFor(r)[i]

\* C35: every action run that is executed ends FAILED, never SUCCESS or
\* TIMEOUT, because action execution is not implemented: its one step after
\* RUNNING fails the run and its ticket, verifies and reports nothing, and
\* when the execution has ended the log has exactly one run.started and one
\* run.failed event for the run and no other terminal event.
C35_ActionRunFails ==
    [][\A r \in RunIds :
          runs[r].run_type = "action" =>
             /\ runs'[r].status \in {"pending", "running", "failed"}
             /\ (runs[r].status = "running" /\ runs'[r].status # "running") =>
                   /\ runs'[r].status = "failed"
                   /\ tickets'[TicketOf(r)].status = "failed"
                   /\ runs'[r].result_summary = "Action runs not yet implemented"
             /\ ex'[r].pc # "verify"
             /\ ex'[r].pc = "done" =>
                   /\ runs'[r].status = "failed"
                   /\ runs'[r].outputs_manifest = None
                   /\ Len(RunEvents(r, {"run.started"})') = 1
                   /\ Len(RunEvents(r, {"run.failed"})') = 1
                   /\ RunEvents(r, {"run.completed", "run.timeout"})' = <<>>
      ]_vars

C35_Witness ==
    \E r \in RunIds :
        /\ runs[r].run_type = "action" /\ ex[r].pc = "done"
        /\ runs[r].status = "failed" /\ tickets[TicketOf(r)].status = "failed"
        /\ Len(RunEvents(r, {"run.started"})) = 1
        /\ Len(RunEvents(r, {"run.failed"})) = 1

\* C36: every run whose execution is started reaches a terminal status: with
\* the background task scheduled fairly no run stays RUNNING for ever, also
\* when the dispatch or a status update fails.
C36_StartedRunTerminates ==
    \A r \in 1..MaxRuns :
        (r \in RunIds /\ runs[r].status = "running")
            ~> (r \in RunIds /\ runs[r].status \in Terminal)

\* C37: in every reachable state a run whose status is SUCCESS has an
\* outputs_manifest whose report's overall_result is "passed" and an
\* inputs_manifest listing the artifacts validated: a run is never SUCCESS
\* with its manifests absent.
C37_SuccessHasManifests ==
    \A r \in RunIds :
        runs[r].status = "success" =>
            /\ runs[r].outputs_manifest # None
            /\ runs[r].inputs_manifest # None
            /\ Report(r).overall_result = "passed"
            /\ Len(runs[r].inputs_manifest[1]) = Report(r).total_artifacts

\* C38: in every reachable state a run's exit_code is 0 only if its status
\* is SUCCESS, and a proof run that verified its artifacts and is SUCCESS has
\* exit_code 0, whatever status updates were made, those of the executor's
\* exception handler included.
C38_ExitCodeZeroIffSuccess ==
    \A r \in RunIds :
        /\ runs[r].exit_code = Some(0) => runs[r].status = "success"
        /\ (runs[r].run_type = "proof" /\ Verified(r) /\ runs[r].status = "success")
              => runs[r].exit_code = Some(0)

\* C39: a ticket's status is consistent with its runs, also with several
\* runs on one ticket: a ticket that is DONE or FAILED has no run still
\* PENDING or RUNNING, and a ticket with a PENDING or RUNNING run is RUNNING.
C39_TicketConsistentWithRuns ==
    \A r \in RunIds :
        runs[r].status \in {"pending", "running"} =>
            /\ tickets[TicketOf(r)].status \notin {"done", "failed"}
            /\ tickets[TicketOf(r)].status = "running"

\* C40: a ticket enters APPROVED only through approve_ticket performed by an
\* admin: whatever non-admin actors do with create_ticket, update_ticket and
\* create_run, no step of theirs puts a ticket in status APPROVED.
C40_ApprovedOnlyByAdminApproval ==
    [][/\ \A t \in TicketIds :
             (tickets[t].status # "approved" /\ tickets'[t].status = "approved") =>
                /\ resp'.op = "approve_ticket" /\ resp'.id = t /\ resp'.code = OK
                /\ is_admin(resp'.actor)
                /\ served'.calls = served.calls + 1
       /\ Len(tickets') > Len(tickets) => tickets'[Len(tickets')].status # "approved"
      ]_vars

====
